---- MODULE Spec2Model ----
(***************************************************************************)
(* Transactional core of the Spending context of abramin/Aurum:            *)
(* the SpendingService use cases (create card account, authorize,          *)
(* capture, reverse) running inside the PostgreSQL DataStore.Atomic        *)
(* coordinator under Read Committed, the idempotency store, and the        *)
(* transactional outbox with its dispatcher.                               *)
(*                                                                         *)
(* A transaction's uncommitted writes are kept in staged[r]; a row written *)
(* by an open transaction is locked by it until Commit or rollback, and a  *)
(* statement of another transaction that must write the same row waits.    *)
(***************************************************************************)
EXTENDS Integers, Sequences, FiniteSets, TLC

\* ---------------------------------------------------------------- bounds
MaxRuns == 3          \* service calls started in one behaviour
MaxAmount == 2        \* spending limit, and largest amount a request asks for
BatchSize == 2        \* limit a dispatcher passes to FetchUnpublished
MaxTxs == 2           \* direct calls of DataStore.Atomic in one behaviour
Goroutines == 2 * MaxAmount   \* twice as many attempts as the limit admits

Reqs == {"r1", "r2"}          \* concurrent request handlers (goroutines)
Keys == {"k1", "k2", "k3"}    \* idempotency keys clients use
Tenants == {"t1"}
AcctIds == {"acc1"}
SeqRuns == MaxRuns + 1        \* service calls when the handlers take turns
AuthIds == 1..SeqRuns         \* one fresh authorization id per call at most
EventIds == 1..SeqRuns        \* one fresh event id per call at most
TargetIds == {1, 2}           \* authorizations capture and reverse requests name
Callers == {"c1", "c2", "c3"} \* goroutines calling SetIfAbsent directly
Disps == {"d1", "d2"}         \* outbox dispatcher instances

NoRow == [none |-> TRUE]

\* ------------------------------------------------------------ value types
CurrencyEUR == "EUR"
CurrencyUSD == "USD"

NewMoney(amount, currency) == [amt |-> amount, cur |-> currency]

Zero(currency) == NewMoney(0, currency)

Add(m, other) ==
    IF m.cur # other.cur
      THEN [ok |-> FALSE, v |-> m]
      ELSE [ok |-> TRUE, v |-> NewMoney(m.amt + other.amt, m.cur)]

Subtract(m, other) ==
    IF m.cur # other.cur
      THEN [ok |-> FALSE, v |-> m]
      ELSE [ok |-> TRUE, v |-> NewMoney(m.amt - other.amt, m.cur)]

GreaterThan(m, other) == m.cur = other.cur /\ m.amt > other.amt

\* ------------------------------------------------------------- aggregates
\* Variant whose zero spend is in one fixed currency.
NewCardAccountInUSD(id, tenantID, spendingLimit) ==
    [id |-> id, tenantID |-> tenantID, spendingLimit |-> spendingLimit,
     rollingSpend |-> Zero(CurrencyUSD), version |-> 1]

NewCardAccount(id, tenantID, spendingLimit) ==
    [id |-> id, tenantID |-> tenantID, spendingLimit |-> spendingLimit,
     rollingSpend |-> Zero(spendingLimit.cur), version |-> 1]

\* Variant that records the spend before it compares it with the limit.
AuthorizeAmountRecordFirst(c, amount) ==
    IF amount.cur # c.spendingLimit.cur
      THEN [err |-> "CurrencyMismatch", acct |-> c]
      ELSE LET newSpend == Add(c.rollingSpend, amount) IN
           IF ~newSpend.ok
             THEN [err |-> "MoneyError", acct |-> c]
             ELSE [err |-> IF GreaterThan(newSpend.v, c.spendingLimit)
                             THEN "LimitExceeded" ELSE "ok",
                   acct |-> [c EXCEPT !.rollingSpend = newSpend.v,
                                      !.version = @ + 1]]

\* Variant that refuses a sum equal to the limit.
AuthorizeAmountBelowLimit(c, amount) ==
    IF amount.cur # c.spendingLimit.cur
      THEN [err |-> "CurrencyMismatch", acct |-> c]
      ELSE LET newSpend == Add(c.rollingSpend, amount) IN
           IF ~newSpend.ok
             THEN [err |-> "MoneyError", acct |-> c]
             ELSE IF newSpend.v.amt >= c.spendingLimit.amt
               THEN [err |-> "LimitExceeded", acct |-> c]
               ELSE [err |-> "ok",
                     acct |-> [c EXCEPT !.rollingSpend = newSpend.v,
                                        !.version = @ + 1]]

\* Variant without the spending-limit comparison.
AuthorizeAmountUnchecked(c, amount) ==
    IF amount.cur # c.spendingLimit.cur
      THEN [err |-> "CurrencyMismatch", acct |-> c]
      ELSE LET newSpend == Add(c.rollingSpend, amount) IN
           IF ~newSpend.ok
             THEN [err |-> "MoneyError", acct |-> c]
             ELSE [err |-> "ok",
                   acct |-> [c EXCEPT !.rollingSpend = newSpend.v,
                                      !.version = @ + 1]]

AuthorizeAmount(c, amount) ==
    IF amount.cur # c.spendingLimit.cur
      THEN [err |-> "CurrencyMismatch", acct |-> c]
      ELSE LET newSpend == Add(c.rollingSpend, amount) IN
           IF ~newSpend.ok
             THEN [err |-> "MoneyError", acct |-> c]
             ELSE IF GreaterThan(newSpend.v, c.spendingLimit)
               THEN [err |-> "LimitExceeded", acct |-> c]
               ELSE [err |-> "ok",
                     acct |-> [c EXCEPT !.rollingSpend = newSpend.v,
                                        !.version = @ + 1]]

\* Variant that bumps the version and keeps the spend.
ReleaseAmountKeepsSpend(c, amount) ==
    IF amount.cur # c.rollingSpend.cur
      THEN [err |-> "CurrencyMismatch", acct |-> c]
      ELSE [err |-> "ok", acct |-> [c EXCEPT !.version = @ + 1]]

ReleaseAmount(c, amount) ==
    IF amount.cur # c.rollingSpend.cur
      THEN [err |-> "CurrencyMismatch", acct |-> c]
      ELSE LET newSpend == Subtract(c.rollingSpend, amount) IN
           IF ~newSpend.ok
             THEN [err |-> "MoneyError", acct |-> c]
             ELSE [err |-> "ok",
                   acct |-> [c EXCEPT !.rollingSpend = newSpend.v,
                                      !.version = @ + 1]]

\* spendingLimit - rollingSpend; the error of Subtract is dropped and the
\* zero Money it comes with is returned.
AvailableLimit(c) ==
    LET available == Subtract(c.spendingLimit, c.rollingSpend) IN
    IF available.ok THEN available.v ELSE NewMoney(0, "")

NewAuthorization(id, tenantID, cardAccountID, authorizedAmount) ==
    [id |-> id, tenantID |-> tenantID, cardAccountID |-> cardAccountID,
     authorizedAmount |-> authorizedAmount,
     capturedAmount |-> Zero(authorizedAmount.cur),
     state |-> "authorized", version |-> 1]

\* Variant that records the amount before it validates it.
CaptureRecordsFirst(a, amount) ==
    IF a.state = "captured" THEN [err |-> "AlreadyCaptured", auth |-> a]
    ELSE IF a.state # "authorized" THEN [err |-> "InvalidTransition", auth |-> a]
    ELSE IF amount.cur # a.authorizedAmount.cur
      THEN [err |-> "CurrencyMismatch", auth |-> [a EXCEPT !.capturedAmount = amount]]
    ELSE IF GreaterThan(amount, a.authorizedAmount)
      THEN [err |-> "ExceedsAuthorized", auth |-> [a EXCEPT !.capturedAmount = amount]]
    ELSE [err |-> "ok",
          auth |-> [a EXCEPT !.capturedAmount = amount,
                             !.state = "captured",
                             !.version = @ + 1]]

\* Variant that validates the amount before it looks at the state.
CaptureAmountFirst(a, amount) ==
    IF amount.cur # a.authorizedAmount.cur
      THEN [err |-> "CurrencyMismatch", auth |-> a]
    ELSE IF GreaterThan(amount, a.authorizedAmount)
      THEN [err |-> "ExceedsAuthorized", auth |-> a]
    ELSE IF a.state = "captured" THEN [err |-> "AlreadyCaptured", auth |-> a]
    ELSE IF a.state # "authorized" THEN [err |-> "InvalidTransition", auth |-> a]
    ELSE [err |-> "ok",
          auth |-> [a EXCEPT !.capturedAmount = amount,
                             !.state = "captured",
                             !.version = @ + 1]]

Capture(a, amount) ==
    IF a.state = "captured" THEN [err |-> "AlreadyCaptured", auth |-> a]
    ELSE IF a.state # "authorized" THEN [err |-> "InvalidTransition", auth |-> a]
    ELSE IF amount.cur # a.authorizedAmount.cur
      THEN [err |-> "CurrencyMismatch", auth |-> a]
    ELSE IF GreaterThan(amount, a.authorizedAmount)
      THEN [err |-> "ExceedsAuthorized", auth |-> a]
    ELSE [err |-> "ok",
          auth |-> [a EXCEPT !.capturedAmount = amount,
                             !.state = "captured",
                             !.version = @ + 1]]

Reverse(a) ==
    IF a.state # "authorized"
      THEN [err |-> "InvalidTransition", auth |-> a]
      ELSE [err |-> "ok",
            auth |-> [a EXCEPT !.state = "reversed", !.version = @ + 1]]

\* Variant that also lets a captured authorization expire.
ExpireFromCaptured(a) ==
    IF a.state \notin {"authorized", "captured"}
      THEN [err |-> "InvalidTransition", auth |-> a]
      ELSE [err |-> "ok",
            auth |-> [a EXCEPT !.state = "expired", !.version = @ + 1]]

Expire(a) ==
    IF a.state # "authorized"
      THEN [err |-> "InvalidTransition", auth |-> a]
      ELSE [err |-> "ok",
            auth |-> [a EXCEPT !.state = "expired", !.version = @ + 1]]

\* ------------------------------------------------------------------ state
VARIABLES
    cardAccounts,     \* committed rows of spending.card_accounts, by id
    authorizations,   \* committed rows of spending.authorizations, by id
    idempotencyKeys,  \* committed rows of spending.idempotency_keys
    outbox,           \* committed rows of spending.outbox, by event id
    pc,               \* position of each request handler in its service call
    req,              \* the request a handler is serving
    acct,             \* the CardAccount aggregate the callback holds
    auth,             \* the Authorization aggregate the callback holds
    staged,           \* uncommitted writes of the handler's transaction
    result,           \* the response prepared inside the callback
    resp,             \* what the service call returned
    runs,             \* service calls started so far
    prior,            \* history: response of the call this call replays
    committed,        \* history: the call's transaction committed
    rivals,           \* history: handlers that raced this call with its key
    calls,            \* direct callers of IdempotencyStore.SetIfAbsent
    disp,             \* outbox dispatchers: position, batch, open transaction
    atomic,           \* direct callers of DataStore.Atomic: callback error, panic, result
    race              \* goroutines of the concurrent spending-limit test, and its counters

dbVars == <<cardAccounts, authorizations, idempotencyKeys, outbox>>
svcVars == <<pc, req, acct, auth, staged, result, resp, runs,
             prior, committed, rivals>>
auxVars == <<calls, disp, atomic, race>>
vars == <<dbVars, svcVars, auxVars>>

EmptyTx == [acct |-> NoRow, auth |-> NoRow, outbox |-> <<>>, idem |-> NoRow]

NoReq == [op |-> "none", tenantID |-> "", key |-> "",
          amount |-> NewMoney(0, ""), authID |-> 0]

NoResp == [status |-> "none", body |-> NoRow]

IdleCall == [pc |-> "idle", key |-> "", created |-> FALSE, entry |-> NoRow, err |-> "ok"]

IdleDisp == [pc |-> "idle", batch |-> <<>>, ok |-> {}, marks |-> {}]

\* Errors as errors.Is sees them: the text, and the errors in the %w chain.
NoError == [text |-> <<>>, is |-> {}]

\* errors.New(e), and what the domain's sentinel errors are.
ErrorOf(e) == [text |-> <<e>>, is |-> {e}]

NoAtomic == [fnErr |-> NoError, panic |-> "", out |-> NoError, wrote |-> {}]

\* ------------------------------------------------------- request alphabet
\* The requests clients send, before the idempotency key is chosen.
AuthorizeAmounts ==
    {NewMoney(a, CurrencyEUR) : a \in 1..MaxAmount} \cup {NewMoney(1, CurrencyUSD)}

AuthorizeReqs ==
    {[op |-> "authorize", tenantID |-> t, key |-> "", amount |-> m, authID |-> 0] :
        t \in Tenants, m \in AuthorizeAmounts}

CaptureAmounts == {NewMoney(1, CurrencyEUR)}

CaptureReqs ==
    {[op |-> "capture", tenantID |-> t, key |-> "", amount |-> m, authID |-> a] :
        t \in Tenants, m \in CaptureAmounts, a \in TargetIds}

ReverseReqs ==
    {[op |-> "reverse", tenantID |-> t, key |-> "",
      amount |-> NewMoney(0, ""), authID |-> a] :
        t \in Tenants, a \in TargetIds}

Requests == AuthorizeReqs \cup CaptureReqs \cup ReverseReqs

\* --------------------------------------------------- PostgreSQL statements
\* Rows another open transaction has written are locked until it ends.
AccountLockedByOther(r, id) ==
    \E o \in Reqs \ {r} : staged[o].acct # NoRow /\ staged[o].acct.id = id

AuthLockedByOther(r, id) ==
    \E o \in Reqs \ {r} : staged[o].auth # NoRow /\ staged[o].auth.id = id

KeyLockedByOther(r, t, k) ==
    \E o \in Reqs \ {r} :
        /\ staged[o].idem # NoRow
        /\ staged[o].idem.tenantID = t
        /\ staged[o].idem.idempotencyKey = k

\* What a statement of transaction r reads: its own writes, else committed.
VisAccount(r, id) ==
    IF staged[r].acct # NoRow /\ staged[r].acct.id = id
      THEN staged[r].acct ELSE cardAccounts[id]

VisAuth(r, id) ==
    IF staged[r].auth # NoRow /\ staged[r].auth.id = id
      THEN staged[r].auth ELSE authorizations[id]

\* CHECK constraints of spending.card_accounts
AccountChecks(a) ==
    /\ a.spendingLimit.amt >= 0
    /\ a.rollingSpend.amt >= 0
    /\ a.spendingLimit.cur = a.rollingSpend.cur

\* CHECK constraints of spending.authorizations
AuthorizationChecks(a) ==
    /\ a.authorizedAmount.amt > 0
    /\ a.capturedAmount.amt >= 0
    /\ a.state \in {"authorized", "captured", "reversed", "expired"}
    /\ a.authorizedAmount.cur = a.capturedAmount.cur

\* Variant whose DO UPDATE has no version predicate: the last writer wins.
CardAccountSaveLastWriterWins(stored, a) ==
    IF ~AccountChecks(a)
      THEN [err |-> "CheckViolation", rows |-> 0, row |-> stored]
    ELSE IF stored = NoRow
      THEN [err |-> "ok", rows |-> 1, row |-> a]
      ELSE [err |-> "ok", rows |-> 1,
            row |-> [stored EXCEPT !.rollingSpend = a.rollingSpend,
                                   !.version = a.version]]

\* CardAccountRepository.Save: INSERT ... ON CONFLICT (id) DO UPDATE ...
\* WHERE stored.version = EXCLUDED.version - 1, then the rows-affected test.
CardAccountSave(stored, a) ==
    IF ~AccountChecks(a)
      THEN [err |-> "CheckViolation", rows |-> 0, row |-> stored]
    ELSE IF stored = NoRow
      THEN [err |-> "ok", rows |-> 1, row |-> a]
    ELSE IF stored.version = a.version - 1
      THEN [err |-> "ok", rows |-> 1,
            row |-> [stored EXCEPT !.rollingSpend = a.rollingSpend,
                                   !.version = a.version]]
    ELSE IF a.version > 1
      THEN [err |-> "OptimisticLock", rows |-> 0, row |-> stored]
      ELSE [err |-> "ok", rows |-> 0, row |-> stored]

\* Variant of the authorization UPSERT without the version predicate.
AuthorizationSaveLastWriterWins(stored, a) ==
    IF ~AuthorizationChecks(a)
      THEN [err |-> "CheckViolation", rows |-> 0, row |-> stored]
    ELSE IF stored = NoRow
      THEN [err |-> "ok", rows |-> 1, row |-> a]
      ELSE [err |-> "ok", rows |-> 1,
            row |-> [stored EXCEPT !.capturedAmount = a.capturedAmount,
                                   !.state = a.state,
                                   !.version = a.version]]

\* AuthorizationRepository.Save: the same UPSERT on spending.authorizations.
AuthorizationSave(stored, a) ==
    IF ~AuthorizationChecks(a)
      THEN [err |-> "CheckViolation", rows |-> 0, row |-> stored]
    ELSE IF stored = NoRow
      THEN [err |-> "ok", rows |-> 1, row |-> a]
    ELSE IF stored.version = a.version - 1
      THEN [err |-> "ok", rows |-> 1,
            row |-> [stored EXCEPT !.capturedAmount = a.capturedAmount,
                                   !.state = a.state,
                                   !.version = a.version]]
    ELSE IF a.version > 1
      THEN [err |-> "OptimisticLock", rows |-> 0, row |-> stored]
      ELSE [err |-> "ok", rows |-> 0, row |-> stored]

\* IdempotencyStore.Get: SELECT ... WHERE tenant_id = $1 AND idempotency_key = $2
IdempotencyGet(tenantID, key) == idempotencyKeys[<<tenantID, key>>]

\* IdempotencyStore.SetIfAbsent: one statement,
\*   WITH new_row AS (INSERT ... ON CONFLICT DO NOTHING RETURNING ..., true)
\*   SELECT ... FROM new_row UNION ALL
\*   SELECT ..., false FROM idempotency_keys WHERE key = $2 AND NOT EXISTS new_row
\* existing: the committed row now; locked: another open transaction has
\* inserted the key; waited: the statement took its snapshot before that
\* transaction ended and was waiting on it.  After such a wait the INSERT
\* sees the conflict and does nothing, while the SELECT still reads the
\* statement's snapshot, which has no row: Scan returns pgx.ErrNoRows.
SetIfAbsent(existing, locked, waited, entry) ==
    IF existing # NoRow
      THEN IF waited
             THEN [outcome |-> "error", created |-> FALSE, entry |-> NoRow]
             ELSE [outcome |-> "done", created |-> FALSE, entry |-> existing]
    ELSE IF locked
      THEN [outcome |-> "wait", created |-> FALSE, entry |-> NoRow]
      ELSE [outcome |-> "done", created |-> TRUE, entry |-> entry]

\* Fresh identifiers (uuid.New): an id no row or aggregate in flight carries.
FreshAuthIds ==
    {i \in AuthIds : /\ authorizations[i] = NoRow
                     /\ \A o \in Reqs : auth[o] = NoRow \/ auth[o].id # i}

\* Event ids double as time.Now() of the entry: later entries get larger ones.
FreshEventIds ==
    {e \in EventIds :
        /\ outbox[e] = NoRow
        /\ \A o \in Reqs : \A i \in 1..Len(staged[o].outbox) : staged[o].outbox[i].id # e}

Min(S) == CHOOSE x \in S : \A y \in S : x <= y

\* ------------------------------------------------------ service responses
Err(e) == [status |-> e, body |-> NoRow]

\* Money.String(): "<amount with two decimals> <currency>"
MoneyString(m) == <<m.amt, m.cur>>

EmptyString == <<>>

\* json.Marshal of Create/Reverse/CaptureAuthorizationResponse
ResponseBody(op, a) ==
    [authorization_id |-> a.id, status |-> a.state,
     captured_amount |-> IF op = "capture"
                           THEN MoneyString(a.capturedAmount) ELSE EmptyString]

\* json.Unmarshal of a stored body into the response type of operation op:
\* fields the type does not declare are dropped, missing ones stay empty.
DecodeResponse(op, body) ==
    IF op = "capture" THEN body ELSE [body EXCEPT !.captured_amount = EmptyString]

StatusCode(op) == IF op = "authorize" THEN 201 ELSE 200

EventType(op) ==
    CASE op = "authorize" -> "spend.authorized"
      [] op = "capture"   -> "spend.captured"
      [] op = "reverse"   -> "spend.reversed"

\* The service call of handler r returns; pgx rolls back whatever its
\* transaction staged and did not commit.
Return(r, response) ==
    /\ pc' = [pc EXCEPT ![r] = "done"]
    /\ resp' = [resp EXCEPT ![r] = response]
    /\ staged' = [staged EXCEPT ![r] = EmptyTx]
    /\ acct' = [acct EXCEPT ![r] = NoRow]
    /\ auth' = [auth EXCEPT ![r] = NoRow]
    /\ result' = [result EXCEPT ![r] = NoRow]

Goto(r, label) == pc' = [pc EXCEPT ![r] = label]

InFlight(r) == pc[r] \notin {"idle", "done"}

\* ---------------------------------------------------------------- actions
\* The state after tenant onboarding: CreateCardAccount has committed the
\* tenant's account (NewCardAccount: zero rolling spend, version 1).
\* The concurrent spending-limit test before its goroutines start.
NoRace ==
    [g |-> [i \in 1..Goroutines |-> [pc |-> "start", acc |-> NoRow, err |-> "ok"]],
     successCount |-> 0, failCount |-> 0]

Init ==
    /\ cardAccounts = [i \in AcctIds |->
                          NewCardAccount(i, "t1", NewMoney(MaxAmount, CurrencyEUR))]
    /\ authorizations = [i \in AuthIds |-> NoRow]
    /\ idempotencyKeys = [k \in Tenants \X Keys |-> NoRow]
    /\ outbox = [e \in EventIds |-> NoRow]
    /\ pc = [r \in Reqs |-> "idle"]
    /\ req = [r \in Reqs |-> NoReq]
    /\ acct = [r \in Reqs |-> NoRow]
    /\ auth = [r \in Reqs |-> NoRow]
    /\ staged = [r \in Reqs |-> EmptyTx]
    /\ result = [r \in Reqs |-> NoRow]
    /\ resp = [r \in Reqs |-> NoResp]
    /\ runs = 0
    /\ prior = [r \in Reqs |-> NoResp]
    /\ committed = [r \in Reqs |-> FALSE]
    /\ rivals = [r \in Reqs |-> {}]
    /\ calls = [c \in Callers |-> IdleCall]
    /\ disp = [d \in Disps |-> IdleDisp]
    /\ atomic = [r \in Reqs |-> NoAtomic]
    /\ race = NoRace

\* A call of CreateAuthorization / CaptureAuthorization / ReverseAuthorization
\* with request q arrives at handler r and does checkIdempotency, the
\* fast-path read outside the transaction.  earlier is the response of the
\* completed call that q replays, if any.
Call(r, q, earlier) ==
    /\ runs' = runs + 1
    /\ req' = [req EXCEPT ![r] = q]
    /\ prior' = [prior EXCEPT ![r] = earlier]
    /\ committed' = [committed EXCEPT ![r] = FALSE]
    /\ LET existing == IdempotencyGet(q.tenantID, q.key)
           racing == {o \in Reqs \ {r} : InFlight(o) /\ req[o] = q} IN
         IF existing # NoRow
           THEN /\ Return(r, [status |-> "ok",
                              body |-> DecodeResponse(q.op, existing.responseBody)])
                /\ rivals' = [o \in Reqs |-> rivals[o] \ {r}] 
           ELSE /\ Goto(r, IF q.op = "authorize" THEN "loadAcct" ELSE "loadAuth")
                /\ resp' = [resp EXCEPT ![r] = NoResp]
                /\ rivals' = [o \in Reqs |->
                                IF o = r THEN racing
                                ELSE IF o \in racing THEN rivals[o] \cup {r}
                                ELSE rivals[o] \ {r}]
                /\ UNCHANGED <<staged, acct, auth, result>>
    /\ UNCHANGED <<dbVars, auxVars>>

\* Idempotency keys are opaque to the program: a client either reuses a key
\* that is in use or takes a new one, and the new one is the next of KeyOrder.
KeyOrder == <<"k1", "k2", "k3">>

UsedKeys ==
    {k \in Keys : \/ \E t \in Tenants : idempotencyKeys[<<t, k>>] # NoRow
                  \/ \E o \in Reqs : req[o].key = k}

ClientKeys ==
    UsedKeys \cup {KeyOrder[i] : i \in {j \in 1..Len(KeyOrder) :
                        /\ KeyOrder[j] \notin UsedKeys
                        /\ \A h \in 1..(j - 1) : KeyOrder[h] \in UsedKeys}}

StartFrom(r, menu) ==
    /\ pc[r] \in {"idle", "done"}
    /\ runs < MaxRuns
    /\ \E k \in ClientKeys : \E q \in menu : Call(r, [q EXCEPT !.key = k], NoResp)

Start(r) == StartFrom(r, Requests)

\* The client retries the request whose call has returned.
Replay(r) ==
    /\ pc[r] = "done"
    /\ runs < MaxRuns
    /\ Call(r, req[r], resp[r])

\* Variant that stores the new authorization through the pool, outside the
\* transaction, before AuthorizeAmount decides.
LoadAccountRecordFirst(r) ==
    /\ pc[r] = "loadAcct"
    /\ \E i \in {x \in AcctIds : VisAccount(r, x).tenantID = req[r].tenantID} :
         LET a == AuthorizeAmount(VisAccount(r, i), req[r].amount)
             n == NewAuthorization(Min(FreshAuthIds), req[r].tenantID, i, req[r].amount) IN
         /\ authorizations' = [authorizations EXCEPT ![n.id] = n]
         /\ IF a.err # "ok"
              THEN Return(r, Err(a.err))
              ELSE /\ acct' = [acct EXCEPT ![r] = a.acct]
                   /\ auth' = [auth EXCEPT ![r] = n]
                   /\ Goto(r, "saveAcct")
                   /\ UNCHANGED <<resp, staged, result>>
    /\ UNCHANGED <<cardAccounts, idempotencyKeys, outbox,
                   req, runs, prior, committed, rivals, auxVars>>

\* CreateAuthorization callback up to the first write: FindByTenantID
\* (... WHERE tenant_id = $1 LIMIT 1), AuthorizeAmount, NewAuthorization.
LoadAccount(r) ==
    /\ pc[r] = "loadAcct"
    /\ LET found == {i \in AcctIds : /\ VisAccount(r, i) # NoRow
                                     /\ VisAccount(r, i).tenantID = req[r].tenantID} IN
         IF found = {}
           THEN Return(r, Err("CardAccountNotFound"))
           ELSE \E i \in found :
                  LET a == AuthorizeAmount(VisAccount(r, i), req[r].amount) IN
                  IF a.err # "ok"
                    THEN Return(r, Err(a.err))
                    ELSE /\ acct' = [acct EXCEPT ![r] = a.acct]
                         /\ auth' = [auth EXCEPT ![r] =
                                NewAuthorization(Min(FreshAuthIds), req[r].tenantID,
                                                 a.acct.id, req[r].amount)]
                         /\ Goto(r, "saveAcct")
                         /\ UNCHANGED <<resp, staged, result>>
    /\ UNCHANGED <<dbVars, req, runs, prior, committed, rivals, auxVars>>

\* Capture/Reverse callback: Authorizations().FindByID, then for capture
\* auth.Capture(amount).
LoadAuthorization(r) ==
    /\ pc[r] = "loadAuth"
    /\ LET a == VisAuth(r, req[r].authID) IN
         IF a = NoRow \/ a.tenantID # req[r].tenantID
           THEN Return(r, Err("AuthorizationNotFound"))
         ELSE IF req[r].op = "capture"
           THEN LET c == Capture(a, req[r].amount) IN
                IF c.err # "ok"
                  THEN Return(r, Err(c.err))
                  ELSE /\ auth' = [auth EXCEPT ![r] = c.auth]
                       /\ Goto(r, "saveAuth")
                       /\ UNCHANGED <<resp, staged, acct, result>>
           ELSE /\ auth' = [auth EXCEPT ![r] = a]
                /\ Goto(r, "loadAuthAcct")
                /\ UNCHANGED <<resp, staged, acct, result>>
    /\ UNCHANGED <<dbVars, req, runs, prior, committed, rivals, auxVars>>

\* Reverse callback: CardAccounts().FindByID, auth.Reverse, ReleaseAmount.
LoadAccountOfAuthorization(r) ==
    /\ pc[r] = "loadAuthAcct"
    /\ LET c == VisAccount(r, auth[r].cardAccountID) IN
         IF c = NoRow \/ c.tenantID # req[r].tenantID
           THEN Return(r, Err("CardAccountNotFound"))
           ELSE LET rv == Reverse(auth[r])
                    rl == ReleaseAmount(c, auth[r].authorizedAmount) IN
                IF rv.err # "ok" THEN Return(r, Err(rv.err))
                ELSE IF rl.err # "ok" THEN Return(r, Err(rl.err))
                ELSE /\ auth' = [auth EXCEPT ![r] = rv.auth]
                     /\ acct' = [acct EXCEPT ![r] = rl.acct]
                     /\ Goto(r, "saveAcct")
                     /\ UNCHANGED <<resp, staged, result>>
    /\ UNCHANGED <<dbVars, req, runs, prior, committed, rivals, auxVars>>

\* repos.CardAccounts().Save(ctx, cardAccount); waits while another open
\* transaction holds the row.
SaveCardAccount(r) ==
    /\ pc[r] = "saveAcct"
    /\ ~AccountLockedByOther(r, acct[r].id)
    /\ LET s == CardAccountSave(VisAccount(r, acct[r].id), acct[r]) IN
         IF s.err # "ok"
           THEN Return(r, Err(s.err))
           ELSE /\ staged' = [staged EXCEPT ![r].acct = IF s.rows = 1 THEN s.row ELSE @]
                /\ Goto(r, "saveAuth")
                /\ UNCHANGED <<resp, acct, auth, result>>
    /\ UNCHANGED <<dbVars, req, runs, prior, committed, rivals, auxVars>>

\* Variant in which a transaction that has written its authorization row
\* goes on to lock the row of the card account: a capture then takes the two
\* locks in the order opposite to a reverse.
SaveAuthorizationThenAccount(r) ==
    /\ pc[r] = "saveAuth"
    /\ IF staged[r].auth # NoRow
         THEN /\ ~AccountLockedByOther(r, auth[r].cardAccountID)
              /\ Goto(r, "outbox")
              /\ UNCHANGED <<resp, staged, acct, auth, result>>
         ELSE /\ ~AuthLockedByOther(r, auth[r].id)
              /\ LET s == AuthorizationSave(VisAuth(r, auth[r].id), auth[r]) IN
                   IF s.err # "ok"
                     THEN Return(r, Err(s.err))
                   ELSE IF s.rows = 1
                     THEN /\ staged' = [staged EXCEPT ![r].auth = s.row]
                          /\ UNCHANGED <<pc, resp, acct, auth, result>>
                     ELSE /\ Goto(r, "outbox")
                          /\ UNCHANGED <<resp, staged, acct, auth, result>>
    /\ UNCHANGED <<dbVars, req, runs, prior, committed, rivals, auxVars>>

\* repos.Authorizations().Save(ctx, auth)
SaveAuthorization(r) ==
    /\ pc[r] = "saveAuth"
    /\ ~AuthLockedByOther(r, auth[r].id)
    /\ LET s == AuthorizationSave(VisAuth(r, auth[r].id), auth[r]) IN
         IF s.err # "ok"
           THEN Return(r, Err(s.err))
           ELSE /\ staged' = [staged EXCEPT ![r].auth = IF s.rows = 1 THEN s.row ELSE @]
                /\ Goto(r, "outbox")
                /\ UNCHANGED <<resp, acct, auth, result>>
    /\ UNCHANGED <<dbVars, req, runs, prior, committed, rivals, auxVars>>

\* Variant that gives every entry the type of the authorize event.
NewOutboxEntryAlwaysAuthorized(op, a, now) ==
    [id |-> now, eventType |-> EventType("authorize"), tenantID |-> a.tenantID,
     authorizationID |-> a.id, occurredAt |-> now, publishedAt |-> FALSE]

\* NewSpend<Type>OutboxEntry, repos.Outbox().Append, and the response.
NewOutboxEntry(op, a, now) ==
    [id |-> now, eventType |-> EventType(op), tenantID |-> a.tenantID,
     authorizationID |-> a.id, occurredAt |-> now, publishedAt |-> FALSE]

\* Variant whose outbox repository is bound to the pool, not the transaction:
\* the INSERT is committed on its own.
AppendOutboxOnPool(r) ==
    /\ pc[r] = "outbox"
    /\ LET e == NewOutboxEntry(req[r].op, auth[r], Min(FreshEventIds)) IN
         outbox' = [outbox EXCEPT ![e.id] = e]
    /\ result' = [result EXCEPT ![r] = ResponseBody(req[r].op, auth[r])]
    /\ Goto(r, "store")
    /\ UNCHANGED <<cardAccounts, authorizations, idempotencyKeys,
                   req, acct, auth, staged, resp, runs, prior, committed, rivals, auxVars>>

AppendOutbox(r) ==
    /\ pc[r] = "outbox"
    /\ staged' = [staged EXCEPT ![r].outbox =
                    Append(@, NewOutboxEntry(req[r].op, auth[r], Min(FreshEventIds)))]
    /\ result' = [result EXCEPT ![r] = ResponseBody(req[r].op, auth[r])]
    /\ Goto(r, "store")
    /\ UNCHANGED <<dbVars, req, acct, auth, resp, runs, prior, committed, rivals, auxVars>>

IdempotencyEntry(r) ==
    [tenantID |-> req[r].tenantID, idempotencyKey |-> req[r].key,
     resourceID |-> auth[r].id, statusCode |-> StatusCode(req[r].op),
     responseBody |-> result[r]]

\* handleIdempotencyConflict(err) on the error Atomic returned: when
\* errors.As finds the idempotencyConflictError in its chain, the body of
\* the entry the error carries is decoded and returned; any other error is
\* returned as it is.
HandleIdempotencyConflict(op, err, existingEntry) ==
    IF "IdempotencyConflict" \in err.is
      THEN [status |-> "ok", body |-> DecodeResponse(op, existingEntry.responseBody)]
      ELSE [status |-> err.text, body |-> NoRow]

\* storeIdempotency inside the callback; on a conflict the callback returns
\* idempotencyConflictError, Atomic rolls back and returns the error, and
\* handleIdempotencyConflict decodes the existing entry's body.
StoreIdempotency(r) ==
    /\ pc[r] \in {"store", "storeWait"}
    /\ LET s == SetIfAbsent(IdempotencyGet(req[r].tenantID, req[r].key),
                            KeyLockedByOther(r, req[r].tenantID, req[r].key),
                            pc[r] = "storeWait", IdempotencyEntry(r)) IN
         CASE s.outcome = "wait" ->
                /\ pc[r] = "store"
                /\ Goto(r, "storeWait")
                /\ UNCHANGED <<resp, staged, acct, auth, result>>
           [] s.outcome = "error" -> Return(r, Err("NoRows"))
           [] s.outcome = "done" /\ s.created ->
                /\ staged' = [staged EXCEPT ![r].idem = s.entry]
                /\ Goto(r, "commit")
                /\ UNCHANGED <<resp, acct, auth, result>>
           [] s.outcome = "done" /\ ~s.created ->
                Return(r, HandleIdempotencyConflict(req[r].op,
                              ErrorOf("IdempotencyConflict"), s.entry))
    /\ UNCHANGED <<dbVars, req, runs, prior, committed, rivals, auxVars>>

\* Variant in which the commit of a capture gives the uncaptured remainder
\* of the authorization back to its account.
ApplyAccountReleasingRemainder(tx) ==
    IF tx.acct # NoRow THEN [cardAccounts EXCEPT ![tx.acct.id] = tx.acct]
    ELSE IF tx.auth # NoRow /\ tx.auth.state = "captured"
      THEN [cardAccounts EXCEPT ![tx.auth.cardAccountID] =
              [@ EXCEPT !.rollingSpend =
                           NewMoney(@.amt - (tx.auth.authorizedAmount.amt
                                              - tx.auth.capturedAmount.amt), @.cur),
                        !.version = @ + 1]]
    ELSE cardAccounts

\* tx.Commit: the staged rows become visible together, locks are released.
ApplyAccount(tx) ==
    IF tx.acct = NoRow THEN cardAccounts
    ELSE [cardAccounts EXCEPT ![tx.acct.id] = tx.acct]

ApplyAuthorization(tx) ==
    IF tx.auth = NoRow THEN authorizations
    ELSE [authorizations EXCEPT ![tx.auth.id] = tx.auth]

ApplyIdempotency(tx) ==
    IF tx.idem = NoRow THEN idempotencyKeys
    ELSE [idempotencyKeys EXCEPT ![<<tx.idem.tenantID, tx.idem.idempotencyKey>>] = tx.idem]

ApplyOutbox(tx) ==
    [e \in EventIds |->
        IF \E i \in 1..Len(tx.outbox) : tx.outbox[i].id = e
          THEN (CHOOSE x \in {tx.outbox[i] : i \in 1..Len(tx.outbox)} : x.id = e)
          ELSE outbox[e]]

Commit(r) ==
    /\ pc[r] = "commit"
    /\ cardAccounts' = ApplyAccount(staged[r])
    /\ authorizations' = ApplyAuthorization(staged[r])
    /\ idempotencyKeys' = ApplyIdempotency(staged[r])
    /\ outbox' = ApplyOutbox(staged[r])
    /\ committed' = [committed EXCEPT ![r] = TRUE]
    /\ Return(r, [status |-> "ok", body |-> result[r]])
    /\ UNCHANGED <<req, runs, prior, rivals, auxVars>>

Step(r) ==
    \/ LoadAccount(r)
    \/ LoadAuthorization(r)
    \/ LoadAccountOfAuthorization(r)
    \/ SaveCardAccount(r)
    \/ SaveAuthorization(r)
    \/ AppendOutbox(r)
    \/ StoreIdempotency(r)
    \/ Commit(r)

Next == \E r \in Reqs : Start(r) \/ Replay(r) \/ Step(r)

Spec == Init /\ [][Next]_vars

\* The same handlers taking turns: a call arrives only when no call is in
\* flight.  Without interleavings one more call fits the budget.
Quiet == \A r \in Reqs : ~InFlight(r)

SeqStart(r) ==
    /\ Quiet
    /\ runs < SeqRuns
    /\ \E k \in ClientKeys : \E q \in Requests : Call(r, [q EXCEPT !.key = k], NoResp)

SeqReplay(r) ==
    /\ Quiet
    /\ runs < SeqRuns
    /\ pc[r] = "done"
    /\ Call(r, req[r], resp[r])

NextSeq == \E r \in Reqs : SeqStart(r) \/ SeqReplay(r) \/ Step(r)

SpecSeq == Init /\ [][NextSeq]_vars

\* The handlers as goroutines racing for row locks: the calls are authorize,
\* capture and reverse of 1.00 EUR, and the scheduler lets every call that
\* can take its next step take it sooner or later.
LockReqs == {q \in Requests : q.amount \in {NewMoney(1, CurrencyEUR), NewMoney(0, "")}}

StartLocks(r) == StartFrom(r, LockReqs)

NextLocks == \E r \in Reqs : StartLocks(r) \/ Replay(r) \/ Step(r)

SpecLocks == Init /\ [][NextLocks]_vars

FairLocks == SpecLocks /\ \A r \in Reqs : WF_vars(Step(r))

\* --------------------------------------- SetIfAbsent called concurrently
\* Each caller runs one SetIfAbsent statement on the pool (autocommit), as
\* TestConcurrentInserts does: the statement inserts, or finds the row, or
\* waits for the transaction that has inserted the key and not yet ended.
CallerEntry(c, k) ==
    [tenantID |-> "t1", idempotencyKey |-> k, resourceID |-> c,
     statusCode |-> StatusCode("capture"), responseBody |-> EmptyString]

KeyPendingByOther(c, k) ==
    \E o \in Callers \ {c} : calls[o].pc = "inserted" /\ calls[o].key = k

SetIfAbsentCall(c) ==
    /\ calls[c].pc = "idle"
    /\ \E k \in Keys :
         LET s == SetIfAbsent(IdempotencyGet("t1", k), KeyPendingByOther(c, k),
                              FALSE, CallerEntry(c, k)) IN
         calls' = [calls EXCEPT ![c] =
            CASE s.outcome = "wait" -> [IdleCall EXCEPT !.pc = "wait", !.key = k]
              [] s.outcome = "done" /\ s.created ->
                   [IdleCall EXCEPT !.pc = "inserted", !.key = k,
                                    !.created = TRUE, !.entry = s.entry]
              [] s.outcome = "done" /\ ~s.created ->
                   [IdleCall EXCEPT !.pc = "done", !.key = k, !.entry = s.entry]]
    /\ UNCHANGED <<dbVars, svcVars, disp, atomic, race>>

\* The transaction the statement waited for has ended.
SetIfAbsentResume(c) ==
    /\ calls[c].pc = "wait"
    /\ ~KeyPendingByOther(c, calls[c].key)
    /\ LET k == calls[c].key
           s == SetIfAbsent(IdempotencyGet("t1", k), FALSE, TRUE, CallerEntry(c, k)) IN
         calls' = [calls EXCEPT ![c] =
            IF s.outcome = "error"
              THEN [@ EXCEPT !.pc = "done", !.err = "NoRows"]
              ELSE [@ EXCEPT !.pc = "inserted", !.created = TRUE, !.entry = s.entry]]
    /\ UNCHANGED <<dbVars, svcVars, disp, atomic, race>>

\* The statement's own transaction commits and the call returns.
SetIfAbsentCommit(c) ==
    /\ calls[c].pc = "inserted"
    /\ idempotencyKeys' = [idempotencyKeys EXCEPT ![<<"t1", calls[c].key>>] = calls[c].entry]
    /\ calls' = [calls EXCEPT ![c].pc = "done"]
    /\ UNCHANGED <<cardAccounts, authorizations, outbox, svcVars, disp, atomic, race>>

NextIdem ==
    \E c \in Callers : SetIfAbsentCall(c) \/ SetIfAbsentResume(c) \/ SetIfAbsentCommit(c)

SpecIdem == Init /\ [][NextIdem]_vars

\* ------------------------------------------------------ outbox dispatcher
Unpublished(rows) == {e \in EventIds : rows[e] # NoRow /\ ~rows[e].publishedAt}

\* ORDER BY occurred_at ASC over the rows with ids in S.
RECURSIVE SortByOccurredAt(_, _)
SortByOccurredAt(rows, S) ==
    IF S = {} THEN <<>>
    ELSE LET first == CHOOSE e \in S :
                         \A o \in S : rows[e].occurredAt <= rows[o].occurredAt IN
         <<first>> \o SortByOccurredAt(rows, S \ {first})

\* Variant with FOR UPDATE but no SKIP LOCKED: the statement waits as soon
\* as a row it would return is locked.
FetchUnpublishedNoSkip(rows, locked, limit) ==
    LET sorted == SortByOccurredAt(rows, Unpublished(rows))
        page == SubSeq(sorted, 1, IF Len(sorted) < limit THEN Len(sorted) ELSE limit) IN
    [blocked |-> \E i \in 1..Len(page) : page[i] \in locked, ids |-> page]

\* OutboxRepository.FetchUnpublished / ListUnpublishedOutbox:
\*   SELECT ... WHERE published_at IS NULL ORDER BY occurred_at ASC
\*   LIMIT $1 FOR UPDATE SKIP LOCKED
\* locked: the rows other open transactions hold.  The statement never waits.
FetchUnpublished(rows, locked, limit) ==
    LET sorted == SortByOccurredAt(rows, Unpublished(rows) \ locked) IN
    [blocked |-> FALSE,
     ids |-> SubSeq(sorted, 1, IF Len(sorted) < limit THEN Len(sorted) ELSE limit)]

\* Variant whose UPDATE has lost its id filter: WHERE published_at IS NULL.
MarkPublishedAll(rows, ids) ==
    IF ids = {} THEN {} ELSE Unpublished(rows)

\* Variant that returns early on a non-empty list.
MarkPublishedNever(rows, ids) ==
    IF ids # {} THEN {} ELSE {e \in EventIds : rows[e] # NoRow /\ e \in ids}

\* OutboxRepository.MarkPublished / MarkOutboxPublished: no-op on an empty
\* list, else UPDATE ... SET published_at = $1 WHERE event_id = ANY($2).
\* The result is the set of rows the UPDATE writes.
MarkPublished(rows, ids) ==
    IF ids = {} THEN {} ELSE {e \in EventIds : rows[e] # NoRow /\ e \in ids}

Range(q) == {q[i] : i \in 1..Len(q)}

\* Rows that open dispatcher transactions other than d's hold locked.
LockedByOthers(d) ==
    UNION {Range(disp[o].batch) : o \in {x \in Disps \ {d} : disp[x].pc # "idle"}}

\* A business transaction commits: the entry it appended becomes visible.
\* (What Commit does to the outbox table, for one authorize.)
AppendCommitted ==
    /\ \E e \in 1..MaxRuns :
         /\ outbox[e] = NoRow
         /\ \A o \in 1..MaxRuns : o < e => outbox[o] # NoRow
         /\ outbox' = ApplyOutbox([EmptyTx EXCEPT !.outbox =
                          <<NewOutboxEntry("authorize",
                              NewAuthorization(e, "t1", "acc1", NewMoney(1, CurrencyEUR)), e)>>])
    /\ UNCHANGED <<cardAccounts, authorizations, idempotencyKeys, svcVars, auxVars>>

\* Iteration steps 1-2: begin a transaction and fetch a batch.
DispatcherFetch(d) ==
    /\ disp[d].pc = "idle"
    /\ LET f == FetchUnpublished(outbox, LockedByOthers(d), BatchSize) IN
         /\ ~f.blocked
         /\ disp' = [disp EXCEPT ![d] = [IdleDisp EXCEPT !.pc = "publish", !.batch = f.ids]]
    /\ UNCHANGED <<dbVars, svcVars, calls, atomic, race>>

\* Iteration step 3: each entry of the batch is offered to the bus.  Either
\* the bus accepts them all ...
PublishAll(d) ==
    /\ disp[d].pc = "publish"
    /\ disp' = [disp EXCEPT ![d].pc = "mark", ![d].ok = Range(disp[d].batch)]
    /\ UNCHANGED <<dbVars, svcVars, calls, atomic, race>>

\* ... or the publish of at least one entry fails, and that entry is left
\* out of the ids.
PublishSome(d) ==
    /\ disp[d].pc = "publish"
    /\ \E accepted \in SUBSET Range(disp[d].batch) :
         /\ accepted # Range(disp[d].batch)
         /\ disp' = [disp EXCEPT ![d].pc = "mark", ![d].ok = accepted]
    /\ UNCHANGED <<dbVars, svcVars, calls, atomic, race>>

\* Iteration step 4: markPublished(ids) within the same transaction.
DispatcherMark(d) ==
    /\ disp[d].pc = "mark"
    /\ disp' = [disp EXCEPT ![d].pc = "commit",
                            ![d].marks = MarkPublished(outbox, disp[d].ok)]
    /\ UNCHANGED <<dbVars, svcVars, calls, atomic, race>>

\* Iteration step 5: commit; the marks become visible, the locks go.
DispatcherCommit(d) ==
    /\ disp[d].pc = "commit"
    /\ outbox' = [e \in EventIds |->
                    IF e \in disp[d].marks
                      THEN [outbox[e] EXCEPT !.publishedAt = TRUE] ELSE outbox[e]]
    /\ disp' = [disp EXCEPT ![d] = IdleDisp]
    /\ UNCHANGED <<cardAccounts, authorizations, idempotencyKeys, svcVars, calls, atomic, race>>

\* The dispatcher crashes with its transaction open: PostgreSQL rolls the
\* transaction back, and the restarted dispatcher begins a new iteration.
DispatcherCrash(d) ==
    /\ disp[d].pc # "idle"
    /\ disp' = [disp EXCEPT ![d] = IdleDisp]
    /\ UNCHANGED <<dbVars, svcVars, calls, atomic, race>>

DispatcherStep(d) ==
    \/ DispatcherFetch(d)
    \/ PublishAll(d)
    \/ PublishSome(d)
    \/ DispatcherMark(d)
    \/ DispatcherCommit(d)
    \/ DispatcherCrash(d)

NextOutbox == AppendCommitted \/ \E d \in Disps : DispatcherStep(d)

SpecOutbox == Init /\ [][NextOutbox]_vars

\* The bus eventually accepts a publish, and every dispatcher keeps
\* iterating: it goes on fetching, and it is not for ever crashing before it
\* has marked and committed what it published.
FairOutbox ==
    /\ SpecOutbox
    /\ \A d \in Disps :
         /\ WF_vars(DispatcherFetch(d))
         /\ WF_vars(PublishAll(d) \/ PublishSome(d))
         /\ WF_vars(DispatcherMark(d))
         /\ WF_vars(DispatcherCommit(d))
         /\ SF_vars(PublishAll(d) /\ disp[d].batch # <<>>)
         /\ SF_vars(DispatcherMark(d) /\ disp[d].ok # {})
         /\ SF_vars(DispatcherCommit(d) /\ disp[d].marks # {})

\* ------------------------------------------- DataStore.Atomic by itself
\* fmt.Errorf("<prefix>: %w", e): the chain of e is kept.
Wrap(prefix, e) == [text |-> <<prefix>> \o e.text, is |-> e.is]

\* fmt.Errorf("tx error: %v, rollback error: %v", err, rbErr): both errors
\* are formatted into the text and neither is wrapped.
RollbackFailed(e, rbErr) ==
    [text |-> <<"tx error">> \o e.text \o <<"rollback error">> \o rbErr.text,
     is |-> {}]

CallbackErrors == {"simulated failure"}     \* errors a callback returns itself
PanicValues == {"simulated panic"}          \* values a callback panics with
ConnClosed == ErrorOf("conn closed")        \* what pgx reports on a dead connection
AtomicKey == KeyOrder[1]                    \* the key the callbacks store

\* Atomic is called with a callback: pool.Begin, which may fail; then the
\* callback starts and loads the card account.
AtomicBegin(r) ==
    /\ pc[r] \in {"idle", "done"}
    /\ runs < MaxTxs
    /\ runs' = runs + 1
    /\ committed' = [committed EXCEPT ![r] = FALSE]
    /\ \E began \in BOOLEAN :
         IF began
           THEN /\ Goto(r, "txFn")
                /\ acct' = [acct EXCEPT ![r] = VisAccount(r, "acc1")]
                /\ atomic' = [atomic EXCEPT ![r] = NoAtomic]
           ELSE /\ Goto(r, "done")
                /\ acct' = [acct EXCEPT ![r] = NoRow]
                /\ atomic' = [atomic EXCEPT ![r] =
                      [NoAtomic EXCEPT !.out = Wrap("begin transaction", ConnClosed)]]
    /\ UNCHANGED <<dbVars, req, auth, staged, result, resp, prior, rivals, calls, disp, race>>

\* The callback returns error e: Atomic's deferred function will roll back.
FnFails(r, e) ==
    /\ Goto(r, "txRollback")
    /\ atomic' = [atomic EXCEPT ![r].fnErr = e]

FnWrote(r, kind) ==
    /\ atomic' = [atomic EXCEPT ![r].wrote = @ \cup {kind}]
    /\ UNCHANGED pc

\* The callback mutates the account it loaded and saves it.
FnSaveAccount(r) ==
    /\ pc[r] = "txFn"
    /\ "account" \notin atomic[r].wrote
    /\ ~AccountLockedByOther(r, acct[r].id)
    /\ LET a == AuthorizeAmount(acct[r], NewMoney(1, CurrencyEUR))
           s == CardAccountSave(VisAccount(r, acct[r].id), a.acct) IN
         IF a.err # "ok"
           THEN FnFails(r, ErrorOf(a.err)) /\ UNCHANGED staged
         ELSE IF s.err # "ok"
           THEN FnFails(r, ErrorOf(s.err)) /\ UNCHANGED staged
           ELSE /\ staged' = [staged EXCEPT ![r].acct = IF s.rows = 1 THEN s.row ELSE @]
                /\ FnWrote(r, "account")
    /\ UNCHANGED <<dbVars, req, acct, auth, result, resp, runs, prior,
                   committed, rivals, calls, disp, race>>

\* The callback creates an authorization and saves it.
FnSaveAuthorization(r) ==
    /\ pc[r] = "txFn"
    /\ "authorization" \notin atomic[r].wrote
    /\ FreshAuthIds # {}
    /\ LET n == NewAuthorization(Min(FreshAuthIds), "t1", "acc1", NewMoney(1, CurrencyEUR))
           s == AuthorizationSave(VisAuth(r, n.id), n) IN
         /\ auth' = [auth EXCEPT ![r] = n]
         /\ staged' = [staged EXCEPT ![r].auth = s.row]
         /\ FnWrote(r, "authorization")
    /\ UNCHANGED <<dbVars, req, acct, result, resp, runs, prior,
                   committed, rivals, calls, disp, race>>

\* Variant whose outbox repository writes through the pool.
FnAppendOnPool(r) ==
    /\ pc[r] = "txFn"
    /\ "authorization" \in atomic[r].wrote
    /\ "outbox" \notin atomic[r].wrote
    /\ LET e == NewOutboxEntry("authorize", auth[r], Min(FreshEventIds)) IN
         outbox' = [outbox EXCEPT ![e.id] = e]
    /\ FnWrote(r, "outbox")
    /\ UNCHANGED <<cardAccounts, authorizations, idempotencyKeys, req, acct, auth,
                   staged, result, resp, runs, prior, committed, rivals, calls, disp, race>>

\* The callback appends the outbox entry of the authorization it saved.
FnAppend(r) ==
    /\ pc[r] = "txFn"
    /\ "authorization" \in atomic[r].wrote
    /\ "outbox" \notin atomic[r].wrote
    /\ staged' = [staged EXCEPT ![r].outbox =
                    Append(@, NewOutboxEntry("authorize", auth[r], Min(FreshEventIds)))]
    /\ FnWrote(r, "outbox")
    /\ UNCHANGED <<dbVars, req, acct, auth, result, resp, runs, prior,
                   committed, rivals, calls, disp, race>>

\* The callback stores an idempotency entry with SetIfAbsent and returns an
\* error when the key is taken.  The statement waits while another open
\* transaction has inserted the key.
FnSetIfAbsent(r) ==
    /\ pc[r] \in {"txFn", "txWait"}
    /\ "idempotency" \notin atomic[r].wrote
    /\ LET s == SetIfAbsent(IdempotencyGet("t1", AtomicKey),
                            KeyLockedByOther(r, "t1", AtomicKey),
                            pc[r] = "txWait", CallerEntry(r, AtomicKey)) IN
         CASE s.outcome = "wait" ->
                /\ pc[r] = "txFn"
                /\ Goto(r, "txWait")
                /\ UNCHANGED <<staged, atomic>>
           [] s.outcome = "error" ->
                FnFails(r, ErrorOf("NoRows")) /\ UNCHANGED staged
           [] s.outcome = "done" /\ ~s.created ->
                FnFails(r, ErrorOf("IdempotencyConflict")) /\ UNCHANGED staged
           [] s.outcome = "done" /\ s.created ->
                /\ staged' = [staged EXCEPT ![r].idem = s.entry]
                /\ atomic' = [atomic EXCEPT ![r].wrote = @ \cup {"idempotency"}]
                /\ Goto(r, "txFn")
    /\ UNCHANGED <<dbVars, req, acct, auth, result, resp, runs, prior,
                   committed, rivals, calls, disp, race>>

\* The callback returns nil.
FnReturn(r) ==
    /\ pc[r] = "txFn"
    /\ Goto(r, "txCommit")
    /\ UNCHANGED <<dbVars, req, acct, auth, staged, result, resp, runs, prior,
                   committed, rivals, auxVars>>

\* The callback returns an error of its own.
FnFail(r) ==
    /\ pc[r] = "txFn"
    /\ \E e \in CallbackErrors : FnFails(r, ErrorOf(e))
    /\ UNCHANGED <<dbVars, req, acct, auth, staged, result, resp, runs, prior,
                   committed, rivals, calls, disp, race>>

\* The callback panics.
FnPanic(r) ==
    /\ pc[r] = "txFn"
    /\ \E p \in PanicValues : atomic' = [atomic EXCEPT ![r].panic = p]
    /\ Goto(r, "txRecover")
    /\ UNCHANGED <<dbVars, req, acct, auth, staged, result, resp, runs, prior,
                   committed, rivals, calls, disp, race>>

\* The transaction of r is over without a commit: its writes are gone.
\* (A Rollback that fails leaves a dead connection, and the server aborts
\* the transaction of a connection that has gone.)
Discard(r) ==
    /\ staged' = [staged EXCEPT ![r] = EmptyTx]
    /\ acct' = [acct EXCEPT ![r] = NoRow]
    /\ auth' = [auth EXCEPT ![r] = NoRow]
    /\ Goto(r, "done")

\* Deferred function, err != nil: tx.Rollback; when the rollback fails too,
\* the two errors are formatted into a new one.
AtomicRollback(r) ==
    /\ pc[r] = "txRollback"
    /\ Discard(r)
    /\ \E rolledBack \in BOOLEAN :
         atomic' = [atomic EXCEPT ![r].out =
                      IF rolledBack THEN atomic[r].fnErr
                      ELSE RollbackFailed(atomic[r].fnErr, ConnClosed)]
    /\ UNCHANGED <<dbVars, req, result, resp, runs, prior, committed, rivals, calls, disp, race>>

\* Variant whose deferred function commits when the callback panicked (err
\* is still nil then) and swallows the panic.
AtomicRecoverCommits(r) ==
    /\ pc[r] = "txRecover"
    /\ Discard(r)
    /\ cardAccounts' = ApplyAccount(staged[r])
    /\ authorizations' = ApplyAuthorization(staged[r])
    /\ idempotencyKeys' = ApplyIdempotency(staged[r])
    /\ outbox' = ApplyOutbox(staged[r])
    /\ committed' = [committed EXCEPT ![r] = TRUE]
    /\ atomic' = [atomic EXCEPT ![r].panic = ""]
    /\ UNCHANGED <<req, result, resp, runs, prior, rivals, calls, disp, race>>

\* Deferred function, recover() != nil: tx.Rollback with its result ignored,
\* then panic(p) with the recovered value.  Atomic returns nothing.
AtomicRecover(r) ==
    /\ pc[r] = "txRecover"
    /\ Discard(r)
    /\ UNCHANGED <<dbVars, req, result, resp, runs, prior, committed, rivals, auxVars>>

\* Deferred function, err == nil: tx.Commit.  The commit succeeds; or it is
\* refused and the transaction is rolled back; or the connection is lost
\* after the server has committed and before its answer is read.
AtomicCommit(r) ==
    /\ pc[r] = "txCommit"
    /\ Discard(r)
    /\ \E outcome \in {"committed", "refused", "lost"} :
         /\ IF outcome = "refused"
              THEN UNCHANGED <<dbVars, committed>>
              ELSE /\ cardAccounts' = ApplyAccount(staged[r])
                   /\ authorizations' = ApplyAuthorization(staged[r])
                   /\ idempotencyKeys' = ApplyIdempotency(staged[r])
                   /\ outbox' = ApplyOutbox(staged[r])
                   /\ committed' = [committed EXCEPT ![r] = TRUE]
         /\ atomic' = [atomic EXCEPT ![r].out =
                      IF outcome = "committed" THEN NoError
                      ELSE Wrap("commit transaction", ConnClosed)]
    /\ UNCHANGED <<req, result, resp, runs, prior, rivals, calls, disp, race>>

AtomicStep(r) ==
    \/ FnSaveAccount(r)
    \/ FnSaveAuthorization(r)
    \/ FnAppend(r)
    \/ FnSetIfAbsent(r)
    \/ FnReturn(r)
    \/ FnFail(r)
    \/ FnPanic(r)
    \/ AtomicRollback(r)
    \/ AtomicRecover(r)
    \/ AtomicCommit(r)

NextAtomic == \E r \in Reqs : AtomicBegin(r) \/ AtomicStep(r)

SpecAtomic == Init /\ [][NextAtomic]_vars

\* ------------------------------------------------ repository Save by itself
\* Card accounts and authorizations as rows or aggregates, with versions in V.
AccountsAt(V) ==
    {[NewCardAccount("acc1", "t1", NewMoney(MaxAmount, CurrencyEUR))
        EXCEPT !.rollingSpend = NewMoney(m, CurrencyEUR), !.version = v] :
        m \in 0..MaxAmount, v \in V}

AuthorizationsAt(V) ==
    {[NewAuthorization(1, "t1", "acc1", NewMoney(1, CurrencyEUR))
        EXCEPT !.state = s, !.capturedAmount = NewMoney(c, CurrencyEUR), !.version = v] :
        s \in {"authorized", "captured", "reversed"}, c \in 0..1, v \in V}

\* A caller holds an aggregate at some version while the table holds no row
\* for its id, or a row at some version.
InitSave ==
    /\ Init!3 /\ Init!4 /\ Init!5 /\ Init!6 /\ Init!9 /\ Init!10 /\ Init!11
    /\ Init!12 /\ Init!13 /\ Init!14 /\ Init!15 /\ Init!16 /\ Init!17 /\ Init!18 /\ Init!19
    /\ \/ /\ \E s \in {NoRow} \cup AccountsAt(1..MaxRuns) :
                cardAccounts = [i \in AcctIds |-> s]
          /\ \E a \in AccountsAt(1..SeqRuns) :
                acct = [r \in Reqs |-> IF r = "r1" THEN a ELSE NoRow]
          /\ authorizations = [i \in AuthIds |-> NoRow]
          /\ auth = [r \in Reqs |-> NoRow]
       \/ /\ \E s \in {NoRow} \cup AuthorizationsAt(1..MaxRuns) :
                authorizations = [i \in AuthIds |-> IF i = 1 THEN s ELSE NoRow]
          /\ \E a \in AuthorizationsAt(1..SeqRuns) :
                auth = [r \in Reqs |-> IF r = "r1" THEN a ELSE NoRow]
          /\ Init!1
          /\ acct = [r \in Reqs |-> NoRow]

\* CardAccountRepository.Save called on the pool: the statement commits.
RepoSaveCardAccount(r) ==
    /\ pc[r] = "idle"
    /\ acct[r] # NoRow
    /\ LET s == CardAccountSave(cardAccounts[acct[r].id], acct[r]) IN
         /\ cardAccounts' = IF s.rows = 1
                              THEN [cardAccounts EXCEPT ![acct[r].id] = s.row]
                              ELSE cardAccounts
         /\ resp' = [resp EXCEPT ![r] = Err(s.err)]
    /\ Goto(r, "done")
    /\ UNCHANGED <<authorizations, idempotencyKeys, outbox, req, acct, auth, staged,
                   result, runs, prior, committed, rivals, auxVars>>

\* AuthorizationRepository.Save called on the pool.
RepoSaveAuthorization(r) ==
    /\ pc[r] = "idle"
    /\ auth[r] # NoRow
    /\ LET s == AuthorizationSave(authorizations[auth[r].id], auth[r]) IN
         /\ authorizations' = IF s.rows = 1
                                THEN [authorizations EXCEPT ![auth[r].id] = s.row]
                                ELSE authorizations
         /\ resp' = [resp EXCEPT ![r] = Err(s.err)]
    /\ Goto(r, "done")
    /\ UNCHANGED <<cardAccounts, idempotencyKeys, outbox, req, acct, auth, staged,
                   result, runs, prior, committed, rivals, auxVars>>

NextSave == \E r \in Reqs : RepoSaveCardAccount(r) \/ RepoSaveAuthorization(r)

SpecSave == InitSave /\ [][NextSave]_vars


\* ------------------------------------ concurrent spending-limit enforcement
\* TestConcurrentSpendingLimitEnforcement: an account with zero spend and a
\* limit of MaxAmount units; each goroutine runs one Atomic callback that
\* loads the account, authorizes one unit and saves.  Nothing retries.

\* repos.CardAccounts().FindByTenantID: the committed row as of this read.
RaceFind(i) ==
    /\ race.g[i].pc = "start"
    /\ race' = [race EXCEPT !.g[i] = [pc |-> "loaded",
                                      acc |-> cardAccounts["acc1"],
                                      err |-> "ok"]]
    /\ UNCHANGED <<dbVars, svcVars, calls, disp, atomic>>

\* acc.AuthorizeAmount, then CardAccounts().Save.  The UPSERT waits while
\* another goroutine's uncommitted write holds the row; a refused
\* authorization or an error of Save ends the callback, Atomic rolls back
\* and the goroutine counts a failure.
RaceAuthorizeAndSave(i) ==
    /\ race.g[i].pc = "loaded"
    /\ LET a == AuthorizeAmount(race.g[i].acc, NewMoney(1, CurrencyEUR))
           s == CardAccountSave(cardAccounts["acc1"], a.acct)
           err == IF a.err # "ok" THEN a.err ELSE s.err
       IN /\ a.err = "ok" => \A j \in 1..Goroutines : race.g[j].pc # "saved"
          /\ race' = IF err = "ok"
                       THEN [race EXCEPT !.g[i] = [pc |-> "saved", acc |-> s.row,
                                                   err |-> "ok"]]
                       ELSE [race EXCEPT !.g[i] = [pc |-> "failed", acc |-> NoRow,
                                                   err |-> err],
                                         !.failCount = @ + 1]
    /\ UNCHANGED <<dbVars, svcVars, calls, disp, atomic>>

\* The callback returned nil: tx.Commit, and the goroutine counts a success.
RaceCommit(i) ==
    /\ race.g[i].pc = "saved"
    /\ cardAccounts' = [cardAccounts EXCEPT !["acc1"] = race.g[i].acc]
    /\ race' = [race EXCEPT !.g[i] = [pc |-> "committed", acc |-> NoRow, err |-> "ok"],
                            !.successCount = @ + 1]
    /\ UNCHANGED <<authorizations, idempotencyKeys, outbox, svcVars, calls, disp, atomic>>

NextRace == \E i \in 1..Goroutines : RaceFind(i) \/ RaceAuthorizeAndSave(i) \/ RaceCommit(i)

SpecRace == Init /\ [][NextRace]_vars


\* ------------------------------------------------- the aggregates by themselves
\* The Authorization aggregate, driven as the domain tests drive it: a fresh
\* authorization, then any sequence of Capture, Reverse and Expire calls.
\* req records the call made last and resp the error it returned.
Moneys == {NewMoney(n, c) : n \in (0 - 1)..(MaxAmount + 1), c \in {CurrencyEUR, CurrencyUSD}}

InitDomain ==
    /\ Init!1 /\ Init!2 /\ Init!3 /\ Init!4 /\ Init!5 /\ Init!6 /\ Init!7 /\ Init!9
    /\ Init!10 /\ Init!11 /\ Init!12 /\ Init!13 /\ Init!14 /\ Init!15 /\ Init!16
    /\ Init!17 /\ Init!18 /\ Init!19
    /\ \E n \in 1..MaxAmount : \E c \in {CurrencyEUR, CurrencyUSD} :
          auth = [r \in Reqs |-> IF r = "r1"
                                   THEN NewAuthorization(1, "t1", "acc1", NewMoney(n, c))
                                   ELSE NoRow]

Called(r, op, amount, out) ==
    /\ auth[r] # NoRow
    /\ auth' = [auth EXCEPT ![r] = out.auth]
    /\ resp' = [resp EXCEPT ![r] = Err(out.err)]
    /\ req' = [req EXCEPT ![r] = [NoReq EXCEPT !.op = op, !.amount = amount]]
    /\ UNCHANGED <<dbVars, pc, acct, staged, result, runs, prior, committed, rivals, auxVars>>

DomainCapture(r) == \E m \in Moneys : Called(r, "capture", m, Capture(auth[r], m))

DomainReverse(r) == Called(r, "reverse", NoReq.amount, Reverse(auth[r]))

DomainExpire(r) == Called(r, "expire", NoReq.amount, Expire(auth[r]))

NextDomain == \E r \in Reqs : DomainCapture(r) \/ DomainReverse(r) \/ DomainExpire(r)

SpecDomain == InitDomain /\ [][NextDomain]_vars

\* The CardAccount aggregate by itself: an account at any spend within its
\* limit, then AuthorizeAmount and ReleaseAmount calls with any amount.  A
\* call bumps the version, which bounds the calls of one behaviour.
DomainAuthorize(r) ==
    /\ acct[r] # NoRow
    /\ acct[r].version <= MaxRuns
    /\ \E m \in Moneys :
          LET out == AuthorizeAmount(acct[r], m) IN
          /\ acct' = [acct EXCEPT ![r] = out.acct]
          /\ resp' = [resp EXCEPT ![r] = Err(out.err)]
          /\ req' = [req EXCEPT ![r] = [NoReq EXCEPT !.op = "authorize", !.amount = m]]
    /\ UNCHANGED <<dbVars, pc, auth, staged, result, runs, prior, committed, rivals, auxVars>>

DomainRelease(r) ==
    /\ acct[r] # NoRow
    /\ acct[r].version <= MaxRuns
    /\ \E m \in Moneys :
          LET out == ReleaseAmount(acct[r], m) IN
          /\ acct' = [acct EXCEPT ![r] = out.acct]
          /\ resp' = [resp EXCEPT ![r] = Err(out.err)]
          /\ req' = [req EXCEPT ![r] = [NoReq EXCEPT !.op = "release", !.amount = m]]
    /\ UNCHANGED <<dbVars, pc, auth, staged, result, runs, prior, committed, rivals, auxVars>>

NextAccount == \E r \in Reqs : DomainAuthorize(r) \/ DomainRelease(r)

SpecAccount == InitSave /\ [][NextAccount]_vars


\* --------------------------------------------- the in-memory DataStore
\* The server wires the spending service to memory.NewDataStore().  Its
\* Atomic holds the store's mutex for the whole callback, so a callback and
\* its commit are one step; its finders return the stored pointer, so what
\* the callback does to an aggregate it loaded is done to the stored one.

\* The store after one authorize call (key k1) of amount n has committed.
InitAuthorized ==
    /\ Init!5 /\ Init!6 /\ Init!7 /\ Init!8 /\ Init!9 /\ Init!10 /\ Init!11
    /\ Init!12 /\ Init!13 /\ Init!14 /\ Init!15 /\ Init!16 /\ Init!17 /\ Init!18
    /\ Init!19
    /\ \E n \in 1..MaxAmount :
          LET m == NewMoney(n, CurrencyEUR)
              a == NewAuthorization(1, "t1", "acc1", m)
              c == NewCardAccount("acc1", "t1", NewMoney(MaxAmount, CurrencyEUR))
          IN /\ cardAccounts = [i \in AcctIds |-> AuthorizeAmount(c, m).acct]
             /\ authorizations = [i \in AuthIds |-> IF i = a.id THEN a ELSE NoRow]
             /\ idempotencyKeys =
                   [k \in Tenants \X Keys |->
                       IF k = <<"t1", KeyOrder[1]>>
                         THEN [tenantID |-> "t1", idempotencyKey |-> KeyOrder[1],
                               resourceID |-> a.id,
                               statusCode |-> StatusCode("authorize"),
                               responseBody |-> ResponseBody("authorize", a)]
                         ELSE NoRow]
             /\ outbox = [e \in EventIds |->
                             IF e = 1 THEN NewOutboxEntry("authorize", a, e) ELSE NoRow]

\* POST /authorizations/{id}/capture: the handler checks tenant_id,
\* idempotency_key and the id, and passes whatever amount the body decoded to.
\* Negative, zero, valid and excessive amounts, and one in another currency.
AnyCaptureReqs ==
    {[op |-> "capture", tenantID |-> t, key |-> "", amount |-> m, authID |-> a] :
        t \in Tenants, a \in TargetIds,
        m \in {NewMoney(n, CurrencyEUR) : n \in {0 - 1, 0, 1, MaxAmount + 1}}
                \cup {NewMoney(1, CurrencyUSD)}}

StartCapture(r) == StartFrom(r, AnyCaptureReqs)

\* The Atomic call of CaptureAuthorization on the in-memory store: FindByID,
\* auth.Capture, Save, Outbox().Append, storeIdempotency, and the commit or
\* the return of the callback's error.
MemoryCaptureAuthorization(r) ==
    /\ pc[r] = "loadAuth"
    /\ req[r].op = "capture"
    /\ LET a == authorizations[req[r].authID]
           c == Capture(a, req[r].amount)
           body == ResponseBody("capture", c.auth)
           existing == IdempotencyGet(req[r].tenantID, req[r].key)
           entry == [tenantID |-> req[r].tenantID, idempotencyKey |-> req[r].key,
                     resourceID |-> c.auth.id, statusCode |-> StatusCode("capture"),
                     responseBody |-> body]
       IN IF a = NoRow \/ a.tenantID # req[r].tenantID
            THEN /\ Return(r, Err("AuthorizationNotFound"))
                 /\ UNCHANGED <<dbVars, committed>>
          ELSE IF c.err # "ok"
            THEN /\ Return(r, Err(c.err))
                 /\ UNCHANGED <<dbVars, committed>>
          ELSE /\ authorizations' = [authorizations EXCEPT ![a.id] = c.auth]
               /\ IF existing # NoRow
                    THEN /\ Return(r, [status |-> "ok",
                                       body |-> DecodeResponse("capture",
                                                               existing.responseBody)])
                         /\ UNCHANGED <<idempotencyKeys, outbox, committed>>
                    ELSE /\ idempotencyKeys' =
                               [idempotencyKeys EXCEPT
                                   ![<<entry.tenantID, entry.idempotencyKey>>] = entry]
                         /\ outbox' = [outbox EXCEPT ![Min(FreshEventIds)] =
                               NewOutboxEntry("capture", c.auth, Min(FreshEventIds))]
                         /\ committed' = [committed EXCEPT ![r] = TRUE]
                         /\ Return(r, [status |-> "ok", body |-> body])
    /\ UNCHANGED <<cardAccounts, req, runs, prior, rivals, auxVars>>

NextMemory == \E r \in Reqs : StartCapture(r) \/ MemoryCaptureAuthorization(r)

SpecMemory == InitAuthorized /\ [][NextMemory]_vars

\* The Atomic call of CreateAuthorization on the in-memory store.  The
\* finder returns the account the store holds, not a copy, so AuthorizeAmount
\* changes the stored account at once; Save, NewAuthorization, Append and
\* storeIdempotency only stage, and the staged rows are applied when the
\* callback returns nil.
MemoryCreateAuthorization(r) ==
    /\ pc[r] = "loadAcct"
    /\ req[r].op = "authorize"
    /\ LET found == {i \in AcctIds : /\ cardAccounts[i] # NoRow
                                     /\ cardAccounts[i].tenantID = req[r].tenantID}
           existing == IdempotencyGet(req[r].tenantID, req[r].key)
       IN IF found = {}
            THEN /\ Return(r, Err("CardAccountNotFound"))
                 /\ UNCHANGED <<dbVars, committed>>
          ELSE \E i \in found :
            LET z == AuthorizeAmount(cardAccounts[i], req[r].amount)
                a == NewAuthorization(Min(FreshAuthIds), req[r].tenantID, i, req[r].amount)
                body == ResponseBody("authorize", a)
                entry == [tenantID |-> req[r].tenantID, idempotencyKey |-> req[r].key,
                          resourceID |-> a.id, statusCode |-> StatusCode("authorize"),
                          responseBody |-> body]
            IN IF z.err # "ok"
                 THEN /\ Return(r, Err(z.err))
                      /\ UNCHANGED <<dbVars, committed>>
               ELSE /\ cardAccounts' = [cardAccounts EXCEPT ![i] = z.acct]
                    /\ IF existing # NoRow
                         THEN /\ Return(r, HandleIdempotencyConflict("authorize",
                                               ErrorOf("IdempotencyConflict"), existing))
                              /\ UNCHANGED <<authorizations, idempotencyKeys, outbox,
                                             committed>>
                         ELSE /\ authorizations' = [authorizations EXCEPT ![a.id] = a]
                              /\ idempotencyKeys' =
                                    [idempotencyKeys EXCEPT
                                        ![<<entry.tenantID, entry.idempotencyKey>>] = entry]
                              /\ outbox' = [outbox EXCEPT ![Min(FreshEventIds)] =
                                    NewOutboxEntry("authorize", a, Min(FreshEventIds))]
                              /\ committed' = [committed EXCEPT ![r] = TRUE]
                              /\ Return(r, [status |-> "ok", body |-> body])
    /\ UNCHANGED <<req, runs, prior, rivals, auxVars>>

StartAuthorizeOrCapture(r) == StartFrom(r, AuthorizeReqs \cup CaptureReqs)

NextAliasing ==
    \E r \in Reqs : \/ StartAuthorizeOrCapture(r)
                     \/ MemoryCreateAuthorization(r)
                     \/ MemoryCaptureAuthorization(r)

SpecAliasing == InitAuthorized /\ [][NextAliasing]_vars

\* The PostgreSQL DataStore again, from the state one committed authorize
\* call leaves: MaxRuns further calls race on that authorization and its
\* account.
SpecAuthorized == InitAuthorized /\ [][Next]_vars

\* ------------------------------------- the in-memory idempotency store
\* The in-memory stores keep one Go map per table, keyed by the string
\* tenantID + ":" + key.  Tenant ids and idempotency keys are any non-empty
\* strings of the request body.
TenantNames == {"a", "a:b"}
KeyNames == {"c", "b:c"}
ResourceNames == {"resource-a", "resource-b"}

MapKey(tenantID, key) == tenantID \o ":" \o key

MapKeys == {MapKey(t, k) : t \in TenantNames, k \in KeyNames}

\* Card account ids (uuid.New) CreateCardAccount can generate.
AccountIds == {"acc1", "acc2", "acc3"}

\* memory.NewDataStore(): empty maps and an empty outbox slice.
NewDataStore ==
    /\ cardAccounts = [i \in AccountIds |-> NoRow]
    /\ Init!2 /\ Init!5 /\ Init!6 /\ Init!7 /\ Init!8
    /\ Init!9 /\ Init!10 /\ Init!11 /\ Init!12 /\ Init!13 /\ Init!14
    /\ Init!15 /\ Init!16 /\ Init!17 /\ Init!18 /\ Init!19
    /\ idempotencyKeys = [k \in MapKeys |-> NoRow]
    /\ outbox = <<>>

\* IdempotencyStore.Get(tenantID, key): the entry under the map key, or nil.
MemoryGet(r) ==
    /\ \E t \in TenantNames, k \in KeyNames :
          /\ req' = [req EXCEPT ![r] = [NoReq EXCEPT !.op = "get", !.tenantID = t, !.key = k]]
          /\ resp' = [resp EXCEPT ![r] =
                [status |-> "ok", body |-> idempotencyKeys[MapKey(t, k)]]]
    /\ UNCHANGED <<dbVars, pc, acct, auth, staged, result, runs, prior,
                   committed, rivals, auxVars>>

\* IdempotencyStore.SetIfAbsent(entry): (false, existing) when the map key
\* is present, else the entry is stored and (true, entry) returned.
MemorySetIfAbsent(r) ==
    /\ \E t \in TenantNames, k \in KeyNames, id \in ResourceNames :
          LET entry == [tenantID |-> t, idempotencyKey |-> k, resourceID |-> id,
                        statusCode |-> StatusCode("get"), responseBody |-> EmptyString]
              existing == idempotencyKeys[MapKey(t, k)]
          IN /\ req' = [req EXCEPT ![r] =
                    [NoReq EXCEPT !.op = "setIfAbsent", !.tenantID = t, !.key = k]]
             /\ IF existing # NoRow
                  THEN /\ resp' = [resp EXCEPT ![r] = [status |-> "existing", body |-> existing]]
                       /\ UNCHANGED idempotencyKeys
                  ELSE /\ resp' = [resp EXCEPT ![r] = [status |-> "created", body |-> entry]]
                       /\ idempotencyKeys' = [idempotencyKeys EXCEPT ![MapKey(t, k)] = entry]
    /\ UNCHANGED <<cardAccounts, authorizations, outbox, pc, acct, auth, staged,
                   result, runs, prior, committed, rivals, auxVars>>

NextTenants == \E r \in Reqs : MemoryGet(r) \/ MemorySetIfAbsent(r)

SpecTenants == NewDataStore /\ [][NextTenants]_vars

\* ------------------------------------------------- the in-memory outbox
\* The in-memory outbox is a slice; the repository's Append puts the entry
\* it is given at the end.  The entry is the caller's: its occurred_at is
\* whatever the caller set.
MemoryOutboxAppend(r) ==
    /\ Len(outbox) < MaxRuns
    /\ \E t \in 1..MaxRuns :
          LET a == NewAuthorization(1, "t1", "acc1", NewMoney(1, CurrencyEUR))
              entry == [NewOutboxEntry("authorize", a, Len(outbox) + 1)
                           EXCEPT !.occurredAt = t]
          IN /\ outbox' = Append(outbox, entry)
             /\ req' = [req EXCEPT ![r] = [op |-> "append", limit |-> 0]]
             /\ result' = [result EXCEPT ![r] = <<entry>>]
    /\ UNCHANGED <<cardAccounts, authorizations, idempotencyKeys, pc, acct, auth,
                   staged, resp, runs, prior, committed, rivals, auxVars>>

\* The loop of OutboxRepository.FetchUnpublished from entry i on: an
\* unpublished entry is appended to the result, and the loop breaks when the
\* result has limit entries or more.
RECURSIVE FetchLoop(_, _, _, _)
FetchLoop(entries, i, limit, fetched) ==
    IF i > Len(entries) THEN fetched
    ELSE IF entries[i].publishedAt = FALSE
      THEN IF Len(fetched) + 1 >= limit
             THEN Append(fetched, entries[i])
             ELSE FetchLoop(entries, i + 1, limit, Append(fetched, entries[i]))
      ELSE FetchLoop(entries, i + 1, limit, fetched)

MemoryFetchUnpublished(r) ==
    /\ \E limit \in 0..BatchSize :
          /\ req' = [req EXCEPT ![r] = [op |-> "fetchUnpublished", limit |-> limit]]
          /\ result' = [result EXCEPT ![r] = FetchLoop(outbox, 1, limit, <<>>)]
    /\ UNCHANGED <<dbVars, pc, acct, auth, staged, resp, runs, prior,
                   committed, rivals, auxVars>>

\* OutboxRepository.MarkPublished(ids): PublishedAt is set on every entry
\* whose id is among ids.
MemoryMarkPublished(r) ==
    /\ \E ids \in SUBSET {outbox[i].id : i \in 1..Len(outbox)} :
          /\ outbox' = [i \in 1..Len(outbox) |->
                           IF outbox[i].id \in ids
                             THEN [outbox[i] EXCEPT !.publishedAt = TRUE]
                             ELSE outbox[i]]
          /\ req' = [req EXCEPT ![r] = [op |-> "markPublished", limit |-> 0]]
          /\ result' = [result EXCEPT ![r] = <<>>]
    /\ UNCHANGED <<cardAccounts, authorizations, idempotencyKeys, pc, acct, auth,
                   staged, resp, runs, prior, committed, rivals, auxVars>>

NextMemoryOutbox ==
    \E r \in Reqs :
        MemoryOutboxAppend(r) \/ MemoryFetchUnpublished(r) \/ MemoryMarkPublished(r)

SpecMemoryOutbox == NewDataStore /\ [][NextMemoryOutbox]_vars

\* ------------------------------------------ the in-memory card accounts
\* SpendingService.CreateCardAccount on the in-memory DataStore: Atomic runs
\* the callback and commits; the callback makes an account with a new id and
\* saves it.  Nothing looks for an account the tenant already has.
MemoryCreateCardAccount(r) ==
    /\ \E t \in Tenants, n \in 1..MaxAmount :
       \E i \in {x \in AccountIds : cardAccounts[x] = NoRow} :
          LET account == NewCardAccount(i, t, NewMoney(n, CurrencyEUR)) IN
          /\ cardAccounts' = [cardAccounts EXCEPT ![i] = account]
          /\ req' = [req EXCEPT ![r] = [NoReq EXCEPT !.op = "createCardAccount", !.tenantID = t]]
          /\ acct' = [acct EXCEPT ![r] = account]
          /\ resp' = [resp EXCEPT ![r] = Err("ok")]
    /\ UNCHANGED <<authorizations, idempotencyKeys, outbox, pc, auth, staged, result,
                   runs, prior, committed, rivals, auxVars>>

\* CardAccountRepository.FindByTenantID: a range over the map of accounts
\* that returns the first one of the tenant; Go leaves the order of a range
\* over a map unspecified.
MemoryFindByTenantID(r) ==
    /\ \E t \in Tenants :
          LET found == {i \in AccountIds : /\ cardAccounts[i] # NoRow
                                           /\ cardAccounts[i].tenantID = t} IN
          /\ req' = [req EXCEPT ![r] = [NoReq EXCEPT !.op = "findByTenantID", !.tenantID = t]]
          /\ IF found = {}
               THEN /\ acct' = [acct EXCEPT ![r] = NoRow]
                    /\ resp' = [resp EXCEPT ![r] = Err("CardAccountNotFound")]
               ELSE \E i \in found :
                      /\ acct' = [acct EXCEPT ![r] = cardAccounts[i]]
                      /\ resp' = [resp EXCEPT ![r] = Err("ok")]
    /\ UNCHANGED <<dbVars, pc, auth, staged, result, runs, prior, committed,
                   rivals, auxVars>>

NextCardAccounts ==
    \E r \in Reqs : MemoryCreateCardAccount(r) \/ MemoryFindByTenantID(r)

SpecCardAccounts == NewDataStore /\ [][NextCardAccounts]_vars

\* ------------------------------------------- loading stored aggregates
\* ReconstructCardAccount: the aggregate is built from the stored values as
\* they are; the function has no error result.
ReconstructCardAccount(id, tenantID, spendingLimit, rollingSpend, version) ==
    [id |-> id, tenantID |-> tenantID, spendingLimit |-> spendingLimit,
     rollingSpend |-> rollingSpend, version |-> version]

\* ReconstructAuthorization: ErrCorruptData when the state is not one of the
\* four (AuthorizationState.IsValid) or capturedAmount.GreaterThan(authorizedAmount).
ReconstructAuthorization(id, tenantID, cardAccountID, authorizedAmount, capturedAmount, state, version) ==
    IF state \notin {"authorized", "captured", "reversed", "expired"}
      THEN [err |-> "CorruptData", auth |-> NoRow]
    ELSE IF GreaterThan(capturedAmount, authorizedAmount)
      THEN [err |-> "CorruptData", auth |-> NoRow]
      ELSE [err |-> "ok",
            auth |-> [id |-> id, tenantID |-> tenantID, cardAccountID |-> cardAccountID,
                      authorizedAmount |-> authorizedAmount,
                      capturedAmount |-> capturedAmount,
                      state |-> state, version |-> version]]

\* The rows the two tables accept: every row that passes their CHECK
\* constraints, whoever wrote it.
StoredAccounts ==
    {a \in [id : {"acc1"}, tenantID : {"t1"},
            spendingLimit : {NewMoney(MaxAmount, CurrencyEUR)},
            rollingSpend : Moneys, version : 1..MaxRuns] : AccountChecks(a)}

StoredAuthorizations ==
    {a \in [id : {1}, tenantID : {"t1"}, cardAccountID : {"acc1"},
            authorizedAmount : {NewMoney(1, CurrencyEUR)},
            capturedAmount : Moneys,
            state : {"authorized", "captured", "reversed", "expired", "unknown"},
            version : {1}] : AuthorizationChecks(a)}

InitStored ==
    /\ Init!3 /\ Init!4 /\ Init!5 /\ Init!6 /\ Init!7 /\ Init!8
    /\ Init!9 /\ Init!10 /\ Init!11 /\ Init!12 /\ Init!13 /\ Init!14
    /\ Init!15 /\ Init!16 /\ Init!17 /\ Init!18 /\ Init!19
    /\ \E a \in StoredAccounts : cardAccounts = [i \in AcctIds |-> a]
    /\ \E a \in StoredAuthorizations :
          authorizations = [i \in AuthIds |-> IF i = 1 THEN a ELSE NoRow]

\* CardAccountRepository.FindByID -> findOne: the row is scanned and handed
\* to ReconstructCardAccount.
FindCardAccount(r) ==
    /\ \E t \in Tenants, i \in AcctIds :
          LET row == cardAccounts[i] IN
          /\ req' = [req EXCEPT ![r] = [NoReq EXCEPT !.op = "findCardAccount", !.tenantID = t]]
          /\ IF row = NoRow \/ row.tenantID # t
               THEN /\ acct' = [acct EXCEPT ![r] = NoRow]
                    /\ resp' = [resp EXCEPT ![r] = Err("CardAccountNotFound")]
               ELSE /\ acct' = [acct EXCEPT ![r] =
                          ReconstructCardAccount(row.id, row.tenantID, row.spendingLimit,
                                                 row.rollingSpend, row.version)]
                    /\ resp' = [resp EXCEPT ![r] = Err("ok")]
    /\ UNCHANGED <<dbVars, pc, auth, staged, result, runs, prior, committed,
                   rivals, auxVars>>

\* AuthorizationRepository.FindByID: the row is scanned and handed to
\* ReconstructAuthorization, whose error is returned.
FindAuthorization(r) ==
    /\ \E t \in Tenants, i \in TargetIds :
          LET row == authorizations[i] IN
          /\ req' = [req EXCEPT ![r] =
                [NoReq EXCEPT !.op = "findAuthorization", !.tenantID = t, !.authID = i]]
          /\ IF row = NoRow \/ row.tenantID # t
               THEN /\ auth' = [auth EXCEPT ![r] = NoRow]
                    /\ resp' = [resp EXCEPT ![r] = Err("AuthorizationNotFound")]
               ELSE LET out == ReconstructAuthorization(row.id, row.tenantID,
                                   row.cardAccountID, row.authorizedAmount,
                                   row.capturedAmount, row.state, row.version) IN
                    /\ auth' = [auth EXCEPT ![r] = out.auth]
                    /\ resp' = [resp EXCEPT ![r] = Err(out.err)]
    /\ UNCHANGED <<dbVars, pc, acct, staged, result, runs, prior, committed,
                   rivals, auxVars>>

NextStored == \E r \in Reqs : FindCardAccount(r) \/ FindAuthorization(r)

SpecStored == InitStored /\ [][NextStored]_vars

\* ------------------------------- the service with a unit of work
\* SpendingService.createAuthorizationWithTx, first half: the transaction
\* begins and the card account is loaded in it; the authorization is made
\* (its id is generated) and the idempotency entry with that id goes to
\* s.idempotencyStore, which is not the transaction's: the entry is
\* committed by the statement.  A key that is taken is answered from the
\* authorization its entry names.
UowSetIfAbsent(r) ==
    /\ pc[r] \in {"idle", "done"}
    /\ runs < MaxRuns
    /\ runs' = runs + 1
    /\ committed' = [committed EXCEPT ![r] = FALSE]
    /\ \E k \in ClientKeys : \E q \in AuthorizeReqs :
          LET n == NewAuthorization(Min(FreshAuthIds), q.tenantID, "acc1", q.amount)
              entry == [tenantID |-> q.tenantID, idempotencyKey |-> k,
                        resourceID |-> n.id, statusCode |-> StatusCode("authorize"),
                        responseBody |-> EmptyString]
              existing == IdempotencyGet(q.tenantID, k)
          IN /\ req' = [req EXCEPT ![r] = [q EXCEPT !.key = k]]
             /\ IF cardAccounts["acc1"] = NoRow \/ cardAccounts["acc1"].tenantID # q.tenantID
                  THEN Return(r, Err("CardAccountNotFound")) /\ UNCHANGED idempotencyKeys
                ELSE IF existing # NoRow
                  THEN /\ UNCHANGED idempotencyKeys
                       /\ IF authorizations[existing.resourceID] = NoRow
                            THEN Return(r, Err("AuthorizationNotFound"))
                            ELSE Return(r, [status |-> "ok", body |-> ResponseBody("authorize",
                                               authorizations[existing.resourceID])])
                  ELSE /\ idempotencyKeys' = [idempotencyKeys EXCEPT ![<<q.tenantID, k>>] = entry]
                       /\ acct' = [acct EXCEPT ![r] = cardAccounts["acc1"]]
                       /\ auth' = [auth EXCEPT ![r] = n]
                       /\ Goto(r, "uowAuthorize")
                       /\ UNCHANGED <<resp, staged, result>>
    /\ UNCHANGED <<cardAccounts, authorizations, outbox, prior, rivals, auxVars>>

\* Second half: AuthorizeAmount, whose error ends the call with a rollback;
\* else the account and the authorization are saved and the transaction
\* commits.  Save reads the stored version itself and updates that row.
UowAuthorizeAndCommit(r) ==
    /\ pc[r] = "uowAuthorize"
    /\ LET a == AuthorizeAmount(acct[r], req[r].amount) IN
         IF a.err # "ok"
           THEN /\ Return(r, Err(a.err))
                /\ UNCHANGED <<cardAccounts, authorizations, committed>>
           ELSE /\ cardAccounts' = [cardAccounts EXCEPT ![acct[r].id] =
                       [@ EXCEPT !.rollingSpend = a.acct.rollingSpend, !.version = @ + 1]]
                /\ authorizations' = [authorizations EXCEPT ![auth[r].id] = auth[r]]
                /\ committed' = [committed EXCEPT ![r] = TRUE]
                /\ Return(r, [status |-> "ok", body |-> ResponseBody("authorize", auth[r])])
    /\ UNCHANGED <<idempotencyKeys, outbox, req, runs, prior, rivals, auxVars>>

NextUow == \E r \in Reqs : UowSetIfAbsent(r) \/ UowAuthorizeAndCommit(r)

SpecUow == Init /\ [][NextUow]_vars

\* ------------------------------------------------ the HTTP error mapping
\* The sentinel errors of the domain the handler knows.
DomainErrors ==
    {"AuthorizationNotFound", "CardAccountNotFound", "AlreadyCaptured",
     "InvalidTransition", "ExceedsAuthorized", "LimitExceeded", "CurrencyMismatch",
     "OptimisticLock", "CorruptData"}

\* What a service operation hands to the handler: a sentinel as the domain
\* or a repository returned it, ErrCorruptData wrapped with %w by a finder,
\* a Money or driver error, and what Atomic makes of a failed Begin, Commit
\* or Rollback.  The handlers refuse an empty tenant_id before the call, so
\* ErrEmptyTenantID does not arrive.
ServiceErrors ==
    {ErrorOf(e) : e \in DomainErrors \cup {"MoneyError", "CheckViolation"}}
        \cup {Wrap("invalid card_account_id", ErrorOf("CorruptData")),
              Wrap("begin transaction", ConnClosed),
              Wrap("commit transaction", ConnClosed)}
        \cup {RollbackFailed(ErrorOf(e), ConnClosed) : e \in DomainErrors}

\* Variant with the mapping of the first handler: 422 for a capture above
\* the authorized amount and for a currency mismatch, no case for a lost
\* version check.
HandleDomainErrorFirstHandler(err) ==
    IF "AuthorizationNotFound" \in err.is THEN 404
    ELSE IF "CardAccountNotFound" \in err.is THEN 404
    ELSE IF "LimitExceeded" \in err.is THEN 422
    ELSE IF "AlreadyCaptured" \in err.is THEN 409
    ELSE IF "ExceedsAuthorized" \in err.is THEN 422
    ELSE IF "InvalidTransition" \in err.is THEN 409
    ELSE IF "CurrencyMismatch" \in err.is THEN 422
    ELSE 500

\* Handler.handleDomainError: the first case whose sentinel errors.Is finds
\* in the chain of err decides the status.
HandleDomainError(err) ==
    IF "AuthorizationNotFound" \in err.is THEN 404
    ELSE IF "CardAccountNotFound" \in err.is THEN 404
    ELSE IF "AlreadyCaptured" \in err.is THEN 409
    ELSE IF "InvalidTransition" \in err.is THEN 409
    ELSE IF "ExceedsAuthorized" \in err.is THEN 400
    ELSE IF "LimitExceeded" \in err.is THEN 422
    ELSE IF "CurrencyMismatch" \in err.is THEN 400
    ELSE IF "OptimisticLock" \in err.is THEN 409
    ELSE IF "EmptyTenantID" \in err.is THEN 400
    ELSE IF "CorruptData" \in err.is THEN 500
    ELSE 500

\* A handler whose service call returned err: h.handleDomainError(w, err).
\* result keeps the error and resp the status written.
WriteDomainError(r) ==
    /\ \E err \in ServiceErrors :
          /\ req' = [req EXCEPT ![r] = [NoReq EXCEPT !.op = "handleDomainError"]]
          /\ result' = [result EXCEPT ![r] = err]
          /\ resp' = [resp EXCEPT ![r] = [status |-> HandleDomainError(err), body |-> NoRow]]
    /\ UNCHANGED <<dbVars, pc, acct, auth, staged, runs, prior, committed, rivals, auxVars>>

NextHandler == \E r \in Reqs : WriteDomainError(r)

SpecHandler == Init /\ [][NextHandler]_vars

\* ------------------------------------------------------------ properties
RECURSIVE SumAmounts(_)
SumAmounts(S) ==
    IF S = {} THEN 0
    ELSE LET a == CHOOSE x \in S : TRUE IN
         a.authorizedAmount.amt + SumAmounts(S \ {a})

\* Committed authorizations of account i that still hold their amount.
HeldAuthorizations(i) ==
    {authorizations[a] : a \in {x \in AuthIds :
        /\ authorizations[x] # NoRow
        /\ authorizations[x].cardAccountID = i
        /\ authorizations[x].state # "reversed"}}

Rejected(r, e) == pc[r] = "done" /\ resp[r].status = e

\* C1: whatever the interleaving of concurrent authorize calls on one card
\* account, the committed rolling_spend never exceeds the spending_limit.
RollingSpendWithinLimit ==
    \A i \in AcctIds :
        cardAccounts[i] # NoRow =>
            cardAccounts[i].rollingSpend.amt <= cardAccounts[i].spendingLimit.amt

\* C1 witness: two authorize calls raced on the account; one committed and
\* filled the limit, the other lost the version check.
RacedToTheLimit ==
    /\ cardAccounts["acc1"].rollingSpend = cardAccounts["acc1"].spendingLimit
    /\ \E r \in Reqs : req[r].op = "authorize" /\ Rejected(r, "OptimisticLock")

Returns(r) == pc[r] # "done" /\ pc'[r] = "done"

\* C3: a replay with the same tenant and idempotency key returns what the
\* first call returned and commits no additional state change, so that a
\* replayed authorize leaves one authorization, one outbox event and one
\* increase of rolling_spend.  Stated for authorize: the replay of an
\* authorize call commits nothing.
ReplayedAuthorizeCommitsNothing ==
    \A r \in Reqs :
        (pc[r] = "done" /\ prior[r] # NoResp /\ req[r].op = "authorize") =>
            ~committed[r]

\* C4: of two calls with the same tenant and key that both passed the
\* fast-path read before either committed, exactly one commits and the
\* other returns the winner's response, not an error.  Stated for the pairs
\* in which one call did commit.
RaceLoserReturnsWinnersResponse ==
    \A r \in Reqs : \A o \in rivals[r] :
        (pc[r] = "done" /\ pc[o] = "done" /\ committed[o]) =>
            ~committed[r] /\ resp[r] = resp[o]

\* C5: of the concurrent SetIfAbsent calls on one (tenant, key) that have
\* returned, exactly one reports inserted = true; every other reports
\* inserted = false with the winner's entry; none fails.
SetIfAbsentOneWinner ==
    \A c \in Callers :
        calls[c].pc = "done" =>
            /\ calls[c].err = "ok"
            /\ calls[c].entry = IdempotencyGet("t1", calls[c].key)
            /\ Cardinality({o \in Callers : /\ calls[o].pc = "done"
                                            /\ calls[o].key = calls[c].key
                                            /\ calls[o].created}) = 1

\* C6: every committed outbox entry describes an aggregate change that is
\* committed too, and a transaction that does not commit leaves none: the
\* outbox table changes only in a commit step, together with the
\* authorization and the card account that transaction wrote.
OutboxDescribesCommitted ==
    \A e \in EventIds :
        outbox[e] # NoRow =>
            LET a == authorizations[outbox[e].authorizationID] IN
            /\ a # NoRow
            /\ outbox[e].eventType = "spend.captured" => a.state = "captured"
            /\ outbox[e].eventType = "spend.reversed" => a.state = "reversed"

OutboxWrittenOnlyByCommit ==
    outbox' # outbox =>
        \E r \in Reqs :
            /\ pc[r] = "commit" /\ committed'[r]
            /\ outbox' = ApplyOutbox(staged[r])
            /\ authorizations' = ApplyAuthorization(staged[r])
            /\ cardAccounts' = ApplyAccount(staged[r])
            /\ staged[r].auth # NoRow

NoOrphanOutboxEntries ==
    []OutboxDescribesCommitted /\ [][OutboxWrittenOnlyByCommit]_vars

\* C6 witness: a transaction that had appended its outbox entry rolled back
\* on the idempotency conflict, while the winner's entry is committed.
RolledBackAfterAppend ==
    \E r \in Reqs : \E o \in rivals[r] :
        /\ pc[r] = "done" /\ ~committed[r] /\ resp[r].status = "ok"
        /\ committed[o]
        /\ Cardinality({e \in EventIds : outbox[e] # NoRow}) = 1

\* C7: the step in which an authorize call is rejected with LimitExceeded
\* or CurrencyMismatch leaves the card account row, the authorizations and
\* the outbox as they were, and its transaction has written nothing.
RejectedAuthorizePersistsNothing ==
    [][\A r \in Reqs :
          (/\ Returns(r)
           /\ req[r].op = "authorize"
           /\ resp'[r].status \in {"LimitExceeded", "CurrencyMismatch"}) =>
              /\ cardAccounts' = cardAccounts
              /\ authorizations' = authorizations
              /\ outbox' = outbox
              /\ staged[r] = EmptyTx]_vars

\* C7 witness: both rejections have happened, with spend already recorded.
BothRejectionsSeen ==
    /\ \E r \in Reqs : req[r].op = "authorize" /\ Rejected(r, "LimitExceeded")
    /\ \E r \in Reqs : req[r].op = "authorize" /\ Rejected(r, "CurrencyMismatch")
    /\ cardAccounts["acc1"].rollingSpend.amt > 0

Committed(e) == outbox[e] # NoRow

Published(e) == outbox[e] # NoRow /\ outbox[e].publishedAt

\* C8: every committed outbox entry is eventually marked published, given
\* that the bus eventually accepts and the dispatchers keep iterating.
EventuallyPublished ==
    \A e \in EventIds : Committed(e) ~> Published(e)

\* C8 witness: entries were committed while the dispatchers ran, and all
\* of them are marked published.
AllPublished ==
    /\ \A e \in 1..MaxRuns : Published(e)
    /\ \A d \in Disps : disp[d].pc = "idle"

\* Entries a fetch with no limit could return once the step is over.
FetchableAfter(d) ==
    Range(FetchUnpublished(outbox', LockedByOthers(d)', Cardinality(EventIds)).ids)

\* An entry becomes published only in the commit of a dispatcher whose
\* publish of that entry succeeded.
MarkedOnlyIfAccepted ==
    \A e \in EventIds :
        (Committed(e) /\ ~Published(e) /\ Published(e)') =>
            \E d \in Disps : DispatcherCommit(d) /\ e \in disp[d].ok

\* When a dispatcher's transaction ends, every entry of its batch whose
\* publish failed, and every entry at all if it ends by a crash, is still
\* unpublished and can be fetched again.
UnmarkedStaysFetchable ==
    \A d \in Disps :
        (disp[d].pc # "idle" /\ disp'[d].pc = "idle") =>
            \A k \in Range(disp[d].batch) :
                (k \notin disp[d].ok \/ DispatcherCrash(d)) =>
                    ~Published(k)' /\ k \in FetchableAfter(d)

AllKinds == {"account", "authorization", "outbox", "idempotency"}

\* C11: when the callback returns an error E, none of its writes is
\* persisted and the error Atomic returns still identifies as E.
CallbackErrorRollsBackAndPropagates ==
    \A r \in Reqs :
        (pc[r] = "done" /\ atomic[r].fnErr # NoError) =>
            /\ ~committed[r]
            /\ atomic[r].out # NoError
            /\ atomic[r].fnErr.is \subseteq atomic[r].out.is

\* A panicked callback's transaction is never committed.
PanickedNeverCommitted ==
    \A r \in Reqs : atomic[r].panic # "" => ~committed[r]

\* The step that handles the panic leaves every table as it was, ends the
\* transaction, returns nothing and raises the recovered value again.
RecoverRollsBack ==
    \A r \in Reqs :
        (pc[r] = "txRecover" /\ pc'[r] # "txRecover") =>
            /\ dbVars' = dbVars
            /\ staged'[r] = EmptyTx
            /\ pc'[r] = "done"
            /\ atomic'[r].panic = atomic[r].panic
            /\ atomic'[r].out = NoError

\* C12: when the callback panics the transaction is rolled back, never
\* committed nor left open, and the same panic is raised again.
PanicRollsBackAndReraises ==
    []PanickedNeverCommitted /\ [][RecoverRollsBack]_vars

\* C12 witness: a callback panicked after it had made every kind of write.
PanickedAfterWrites ==
    \E r \in Reqs :
        /\ pc[r] = "done"
        /\ atomic[r].panic \in PanicValues
        /\ atomic[r].wrote = AllKinds

CommitFailed(r) ==
    /\ atomic[r].out # NoError
    /\ Head(atomic[r].out.text) = "commit transaction"

\* C13 as stated: a callback that returned nil has its writes committed
\* together, and when the commit fails Atomic returns an error and none of
\* the writes is persisted.
CommitFailureLeavesNothing ==
    \A r \in Reqs :
        (pc[r] = "done" /\ CommitFailed(r)) => ~committed[r]

\* The tables change only in the commit step of one transaction, which
\* applies every write that transaction staged, all in that one step.
TablesChangeOnlyInCommit ==
    dbVars' # dbVars =>
        \E r \in Reqs :
            /\ pc[r] = "txCommit"
            /\ cardAccounts' = ApplyAccount(staged[r])
            /\ authorizations' = ApplyAuthorization(staged[r])
            /\ idempotencyKeys' = ApplyIdempotency(staged[r])
            /\ outbox' = ApplyOutbox(staged[r])

\* A commit step that makes Atomic return nil has applied the writes; one
\* that makes it return an error returns the commit's error wrapped.
CommitStepOutcome ==
    \A r \in Reqs :
        (pc[r] = "txCommit" /\ pc'[r] = "done") =>
            IF atomic'[r].out = NoError
              THEN committed'[r] /\ outbox' = ApplyOutbox(staged[r])
              ELSE CommitFailed(r)' /\ ConnClosed.is \subseteq atomic'[r].out.is

\* C13 amended: the writes of a callback that returned nil become visible
\* all together in one commit step or not at all; when Atomic returns nil
\* they are persisted; when the commit fails Atomic returns that error.
CommitIsAllOrNothing ==
    [][TablesChangeOnlyInCommit /\ CommitStepOutcome]_vars

\* C13 witness: one transaction committed all four kinds of write and
\* Atomic returned nil; the commit of another transaction failed.
CommittedAllAndFailedCommit ==
    \E r \in Reqs : \E o \in Reqs \ {r} :
        /\ pc[r] = "done" /\ committed[r] /\ atomic[r].out = NoError
        /\ atomic[r].wrote = AllKinds
        /\ pc[o] = "done" /\ CommitFailed(o)

\* The aggregate r saves in this step, and the row stored for its id.
Saved(r) == IF acct[r] # NoRow THEN acct[r] ELSE auth[r]

StoredFor(r) ==
    IF acct[r] # NoRow THEN cardAccounts[acct[r].id] ELSE authorizations[auth[r].id]

\* C14: Save of an aggregate at version v > 1 succeeds only if the stored
\* row of that id has version v - 1; otherwise it returns OptimisticLock
\* and leaves the stored row as it was.
SaveChecksStoredVersion ==
    [][\A r \in Reqs :
          (pc[r] = "idle" /\ pc'[r] = "done" /\ Saved(r).version > 1) =>
              IF StoredFor(r) # NoRow /\ StoredFor(r).version = Saved(r).version - 1
                THEN resp'[r].status \in {"ok", "OptimisticLock"}
                ELSE resp'[r].status = "OptimisticLock" /\ dbVars' = dbVars]_vars

\* A commit moves the version of each row it rewrites up by exactly one.
CommitsAdvanceVersionByOne ==
    \A r \in Reqs :
        (pc[r] = "commit" /\ pc'[r] = "done") =>
            /\ staged[r].acct # NoRow =>
                  cardAccounts[staged[r].acct.id].version = staged[r].acct.version - 1
            /\ (staged[r].auth # NoRow /\ authorizations[staged[r].auth.id] # NoRow) =>
                  authorizations[staged[r].auth.id].version = staged[r].auth.version - 1

\* A transaction whose aggregate is stale when its Save runs, because a
\* transaction that loaded the same version has committed, gets
\* OptimisticLock, and nothing of it is committed.
StaleSaveGetsOptimisticLock ==
    \A r \in Reqs :
        ((\/ /\ pc[r] = "saveAcct" /\ pc'[r] # "saveAcct"
              /\ cardAccounts[acct[r].id].version # acct[r].version - 1
           \/ /\ pc[r] = "saveAuth" /\ pc'[r] # "saveAuth"
              /\ auth[r].version > 1
              /\ authorizations[auth[r].id].version # auth[r].version - 1)) =>
            /\ resp'[r].status = "OptimisticLock"
            /\ pc'[r] = "done" /\ ~committed'[r]
            /\ staged'[r] = EmptyTx
            /\ dbVars' = dbVars

\* C15: of the concurrent transactions that loaded one card account, or
\* one authorization, at the same version and save a mutation of it, at
\* most one commits and every other gets OptimisticLock and commits
\* nothing: committed versions of an aggregate go up one at a time.
OneWinnerPerVersion ==
    [][CommitsAdvanceVersionByOne /\ StaleSaveGetsOptimisticLock]_vars

\* C15 witness: a capture lost the race for its authorization's version to
\* a transaction that has committed.
CaptureLostTheVersionRace ==
    \E r \in Reqs :
        /\ req[r].op = "capture" /\ Rejected(r, "OptimisticLock")
        /\ authorizations[req[r].authID] # NoRow
        /\ authorizations[req[r].authID].version = 2

RaceFinished == \A i \in 1..Goroutines : race.g[i].pc \in {"committed", "failed"}

\* C16: with twice as many concurrent attempts as the limit admits (20
\* attempts of 100 EUR against a limit of 1000 EUR, zero rolling spend),
\* exactly limit/amount attempts commit, exactly as many fail with
\* LimitExceeded or OptimisticLock, and the final rolling_spend is the limit.
ExactlyLimitManyCommit ==
    RaceFinished =>
        /\ race.successCount = MaxAmount
        /\ race.failCount = Goroutines - MaxAmount
        /\ \A i \in 1..Goroutines :
              race.g[i].pc = "failed" => race.g[i].err \in {"LimitExceeded", "OptimisticLock"}
        /\ cardAccounts["acc1"].rollingSpend = cardAccounts["acc1"].spendingLimit

\* What the test asserts, and what the code guarantees: the spend is the
\* number of successes times the amount, it never exceeds the limit, at
\* least one attempt commits, at least one fails, and every failure is a
\* LimitExceeded or an OptimisticLock.
RaceKeepsTheLimit ==
    /\ cardAccounts["acc1"].rollingSpend.amt = race.successCount
    /\ cardAccounts["acc1"].rollingSpend.amt <= cardAccounts["acc1"].spendingLimit.amt
    /\ \A i \in 1..Goroutines :
          race.g[i].pc = "failed" => race.g[i].err \in {"LimitExceeded", "OptimisticLock"}
    /\ RaceFinished => race.successCount > 0 /\ race.failCount > 0

\* Every goroutine loaded the account before any saved: one commits, the
\* others lose the version race.
OnlyOneAttemptCommitted ==
    /\ RaceFinished
    /\ race.successCount = 1
    /\ race.failCount = Goroutines - 1

\* C17: capture succeeds only from Authorized; on a captured authorization
\* it returns AlreadyCaptured whatever amount and currency are asked for,
\* and on a reversed or expired one it returns InvalidTransition.
CaptureByState ==
    [][\A r \in Reqs : req'[r].op = "capture" =>
          /\ resp'[r].status = "ok" => auth[r].state = "authorized"
          /\ auth[r].state = "captured" => resp'[r].status = "AlreadyCaptured"
          /\ auth[r].state \in {"reversed", "expired"} =>
                resp'[r].status = "InvalidTransition"]_vars

\* A captured authorization was asked to capture again, with an amount in
\* another currency than the authorized one, and answered AlreadyCaptured.
RecaptureInOtherCurrency ==
    /\ req["r1"].op = "capture"
    /\ auth["r1"].state = "captured"
    /\ resp["r1"].status = "AlreadyCaptured"
    /\ req["r1"].amount.cur # auth["r1"].authorizedAmount.cur

\* C18: once an authorization is captured, reversed or expired, every later
\* capture, reverse or expire is rejected and leaves its state, captured
\* amount and version as they were.
TerminalStatesAbsorb ==
    [][\A r \in Reqs :
          (auth[r] # NoRow /\ auth[r].state \in {"captured", "reversed", "expired"}) =>
              /\ resp'[r].status \in {"AlreadyCaptured", "InvalidTransition"}
              /\ auth'[r].state = auth[r].state
              /\ auth'[r].capturedAmount = auth[r].capturedAmount
              /\ auth'[r].version = auth[r].version]_vars

\* An authorization that reached a terminal state has refused a later call.
RefusedInTerminalState ==
    /\ auth["r1"].state \in {"captured", "reversed", "expired"}
    /\ req["r1"].op \in {"capture", "reverse", "expire"}
    /\ resp["r1"].status \in {"AlreadyCaptured", "InvalidTransition"}
    /\ auth["r1"].version = 2

\* C20: every committed authorization has 0 <= captured_amount <=
\* authorized_amount, both in one currency, whatever capture amount the
\* endpoint and the service let through (zero and negative ones included).
CapturedWithinAuthorized ==
    \A i \in AuthIds : authorizations[i] # NoRow =>
        /\ authorizations[i].capturedAmount.amt >= 0
        /\ authorizations[i].capturedAmount.amt <= authorizations[i].authorizedAmount.amt
        /\ authorizations[i].capturedAmount.cur = authorizations[i].authorizedAmount.cur

\* A capture of a negative amount was answered with success.
NegativeCaptureAccepted ==
    \E r \in Reqs :
        /\ pc[r] = "done"
        /\ req[r].op = "capture"
        /\ req[r].amount.amt < 0
        /\ committed[r]
        /\ resp[r].status = "ok"

\* Committed spend.captured events of authorization a: one per commit of a
\* capture.
CaptureCommits(a) ==
    {e \in EventIds : /\ outbox[e] # NoRow
                      /\ outbox[e].eventType = EventType("capture")
                      /\ outbox[e].authorizationID = a}

AtMostOneCapture ==
    \A a \in AuthIds :
        /\ Cardinality(CaptureCommits(a)) <= 1
        /\ CaptureCommits(a) # {} => authorizations[a].state = "captured"

\* A capture whose transaction ends when another call's capture of the
\* authorization is committed gets AlreadyCaptured or OptimisticLock, and
\* the step changes no table.
LosingCaptureRejected ==
    \A r \in Reqs :
        (/\ InFlight(r)
         /\ req[r].op = "capture"
         /\ pc'[r] = "done"
         /\ authorizations[req[r].authID] # NoRow
         /\ authorizations[req[r].authID].state = "captured")
        => /\ resp'[r].status \in {"AlreadyCaptured", "OptimisticLock"}
           /\ UNCHANGED dbVars

\* C19: at most one capture of an authorization ever commits, also when
\* captures with different idempotency keys race on it; every later or
\* losing capture is rejected with AlreadyCaptured or OptimisticLock and
\* changes nothing.
AtMostOneCaptureCommits == []AtMostOneCapture /\ [][LosingCaptureRejected]_vars

\* Two captures of one authorization with different keys were in flight
\* together: one committed, the other lost the version race.
CapturesRacedOneWon ==
    \E r, o \in Reqs :
        /\ pc[r] = "done" /\ pc[o] = "done"
        /\ req[r].op = "capture" /\ req[o].op = "capture"
        /\ req[r].authID = req[o].authID
        /\ req[r].key # req[o].key
        /\ committed[r] /\ resp[r].status = "ok"
        /\ resp[o].status = "OptimisticLock"

\* C21: authorize(amount) on a card account succeeds exactly when the
\* amount's currency is the limit's and rolling_spend + amount <=
\* spending_limit (a sum equal to the limit is accepted); a larger sum is
\* LimitExceeded; on success rolling_spend grows by the amount and the
\* version by exactly one.
AuthorizeExactlyWithinLimit ==
    [][\A r \in Reqs : req'[r].op = "authorize" =>
          LET c == acct[r]
              m == req'[r].amount
              fits == /\ m.cur = c.spendingLimit.cur
                      /\ c.rollingSpend.amt + m.amt <= c.spendingLimit.amt
          IN /\ resp'[r].status = "ok" <=> fits
             /\ (m.cur = c.spendingLimit.cur /\ ~fits) => resp'[r].status = "LimitExceeded"
             /\ fits => /\ acct'[r].rollingSpend =
                              NewMoney(c.rollingSpend.amt + m.amt, c.spendingLimit.cur)
                        /\ acct'[r].version = c.version + 1
                        /\ acct'[r].spendingLimit = c.spendingLimit]_vars

\* An authorize that brought the spend exactly to the limit succeeded.
AuthorizedUpToTheLimit ==
    /\ req["r1"].op = "authorize"
    /\ req["r1"].amount.amt > 0
    /\ resp["r1"].status = "ok"
    /\ acct["r1"].rollingSpend = acct["r1"].spendingLimit

ReleaseBelowZeroFails ==
    [][\A r \in Reqs :
          (/\ req'[r].op = "release"
           /\ req'[r].amount.cur = acct[r].rollingSpend.cur
           /\ acct[r].rollingSpend.amt - req'[r].amount.amt < 0)
          => /\ resp'[r].status # "ok"
             /\ acct'[r] = acct[r]]_vars

\* A release of more than the account's spend was accepted.
ReleasedBelowZero ==
    /\ req["r1"].op = "release"
    /\ req["r1"].amount.amt > 0
    /\ resp["r1"].status = "ok"
    /\ acct["r1"].rollingSpend.amt < 0

\* C24: in every committed state that account creation, authorize, capture
\* and reverse requests lead to, rolling_spend is not negative and is in
\* the currency of spending_limit.
CommittedSpendNotNegative ==
    \A i \in AcctIds : cardAccounts[i] # NoRow =>
        /\ cardAccounts[i].rollingSpend.amt >= 0
        /\ cardAccounts[i].rollingSpend.cur = cardAccounts[i].spendingLimit.cur

\* A reverse that worked from a stale authorization released the amount a
\* second time, got a negative spend, and was refused when it saved.
SecondReleaseRefused ==
    \E r \in Reqs :
        /\ req[r].op = "reverse"
        /\ pc[r] = "done" /\ ~committed[r]
        /\ resp[r].status = "CheckViolation"
        /\ authorizations[req[r].authID].state = "reversed"

\* C25: the commit of a reverse turns the authorization from authorized to
\* reversed and, in the same step, lowers the account's rolling_spend by
\* exactly the authorized amount (so authorizing X and reversing it gives
\* back the spend and the available limit there were); it changes no other
\* account or authorization.
ReverseGivesBackTheAmount ==
    [][\A r \in Reqs :
          (req[r].op = "reverse" /\ pc[r] = "commit" /\ pc'[r] = "done") =>
              LET a == authorizations[req[r].authID]
                  c == cardAccounts[a.cardAccountID]
              IN /\ a.state = "authorized"
                 /\ authorizations' = [authorizations EXCEPT ![a.id] =
                        [a EXCEPT !.state = "reversed", !.version = @ + 1]]
                 /\ cardAccounts' = [cardAccounts EXCEPT ![c.id] =
                        [c EXCEPT !.rollingSpend =
                                     NewMoney(c.rollingSpend.amt - a.authorizedAmount.amt,
                                              c.rollingSpend.cur),
                                  !.version = @ + 1]]
                 /\ AvailableLimit(cardAccounts'[c.id]).amt =
                        AvailableLimit(c).amt + a.authorizedAmount.amt]_vars

\* An authorization was made and reversed: the account's spend is zero again
\* and the whole limit is available.
ReversedBackToZero ==
    \E r \in Reqs :
        /\ req[r].op = "reverse" /\ pc[r] = "done" /\ committed[r]
        /\ authorizations[req[r].authID].state = "reversed"
        /\ cardAccounts["acc1"].rollingSpend.amt = 0
        /\ AvailableLimit(cardAccounts["acc1"]) = cardAccounts["acc1"].spendingLimit
        /\ cardAccounts["acc1"].version = 3

\* C26: an idempotency lookup made for a tenant returns only that tenant's
\* entry for that key: what Get or SetIfAbsent hands back carries the tenant
\* id and the key of the call.
LookupStaysInTenant ==
    \A r \in Reqs :
        (req[r].op \in {"get", "setIfAbsent"} /\ resp[r].body # NoRow) =>
            /\ resp[r].body.tenantID = req[r].tenantID
            /\ resp[r].body.idempotencyKey = req[r].key

\* The same key under two tenants: each tenant's SetIfAbsent created its own
\* entry, and both are stored.
SameKeyUnderTwoTenants ==
    /\ idempotencyKeys[MapKey("a", "c")] # NoRow
    /\ idempotencyKeys[MapKey("a:b", "c")] # NoRow
    /\ idempotencyKeys[MapKey("a", "c")].tenantID = "a"
    /\ idempotencyKeys[MapKey("a:b", "c")].tenantID = "a:b"

\* C27: a transaction in which the idempotency conflict was raised is rolled
\* back, and the service answers from the existing entry: the error Atomic
\* returns is one handleIdempotencyConflict turns into the decoded response.
ConflictAnsweredFromEntry ==
    \A r \in Reqs :
        (pc[r] = "done" /\ "IdempotencyConflict" \in atomic[r].fnErr.is) =>
            /\ ~committed[r]
            /\ HandleIdempotencyConflict("capture", atomic[r].out,
                     IdempotencyGet("t1", AtomicKey)).status = "ok"

\* The rollback after a conflict failed: Atomic returned an error that has
\* the conflict in its text and not in its chain.
ConflictLostInRollback ==
    \E r \in Reqs :
        /\ pc[r] = "done" /\ "IdempotencyConflict" \in atomic[r].fnErr.is
        /\ atomic[r].out = RollbackFailed(ErrorOf("IdempotencyConflict"), ConnClosed)

FetchedWithinLimitInOrder ==
    \A r \in Reqs :
        (req[r] # NoReq /\ req[r].op = "fetchUnpublished") =>
            /\ Len(result[r]) <= req[r].limit
            /\ \A i \in 1..Len(result[r]) : result[r][i].publishedAt = FALSE
            /\ \A i, j \in 1..Len(result[r]) :
                   i < j => result[r][i].occurredAt <= result[r][j].occurredAt

\* fetchUnpublished(0) returned an entry.
FetchedMoreThanLimit ==
    \E r \in Reqs :
        /\ req[r] # NoReq /\ req[r].op = "fetchUnpublished"
        /\ req[r].limit = 0 /\ Len(result[r]) = 1

\* The later of two entries was appended first, and fetchUnpublished
\* returned them as they lie in the slice.
FetchedInInsertionOrder ==
    \E r \in Reqs :
        /\ req[r] # NoReq /\ req[r].op = "fetchUnpublished"
        /\ Len(result[r]) = 2
        /\ result[r][1].occurredAt > result[r][2].occurredAt

\* An entry that was marked published is not fetched.
PublishedNotFetched ==
    \E r \in Reqs :
        /\ req[r] # NoReq /\ req[r].op = "fetchUnpublished"
        /\ Len(outbox) = 2 /\ outbox[1].publishedAt = TRUE
        /\ result[r] = <<outbox[2]>>

\* C30: a stored card account with rolling_spend above spending_limit,
\* negative rolling_spend or two currencies, and a stored authorization with
\* an unknown state or captured_amount above authorized_amount, is not
\* loaded: the finder fails with CorruptData and returns no aggregate.
CorruptRowsNotLoaded ==
    \A r \in Reqs :
        /\ (/\ req[r].op = "findCardAccount"
            /\ \/ cardAccounts["acc1"].rollingSpend.amt > cardAccounts["acc1"].spendingLimit.amt
               \/ cardAccounts["acc1"].rollingSpend.amt < 0
               \/ cardAccounts["acc1"].rollingSpend.cur # cardAccounts["acc1"].spendingLimit.cur)
             => (resp[r].status = "CorruptData" /\ acct[r] = NoRow)
        /\ (/\ req[r].op = "findAuthorization" /\ req[r].authID = 1
            /\ \/ authorizations[1].state \notin {"authorized", "captured", "reversed", "expired"}
               \/ authorizations[1].capturedAmount.amt > authorizations[1].authorizedAmount.amt)
             => (resp[r].status = "CorruptData" /\ auth[r] = NoRow)

\* A card account stored with its spend above its limit was loaded without
\* an error.
OverLimitAccountLoaded ==
    \E r \in Reqs :
        /\ req[r].op = "findCardAccount" /\ resp[r].status = "ok"
        /\ acct[r] = cardAccounts["acc1"]
        /\ acct[r].rollingSpend.amt > acct[r].spendingLimit.amt

\* An authorization stored with more captured than authorized was refused.
OverCapturedAuthorizationRefused ==
    \E r \in Reqs :
        /\ req[r].op = "findAuthorization" /\ resp[r].status = "CorruptData"
        /\ auth[r] = NoRow
        /\ authorizations[1].capturedAmount.amt > authorizations[1].authorizedAmount.amt

\* C31: once a write request with a key has returned, accepted or rejected
\* on admission (LimitExceeded, CurrencyMismatch), the idempotency entry of
\* its tenant and key exists.
EntryAfterFirstWrite ==
    \A r \in Reqs :
        (/\ pc[r] = "done" /\ req[r].op = "authorize"
         /\ resp[r].status \in {"ok", "LimitExceeded", "CurrencyMismatch"}) =>
            IdempotencyGet(req[r].tenantID, req[r].key) # NoRow

\* An authorize call was rejected with LimitExceeded and no entry was stored
\* for its key.
RejectedLeftNoEntry ==
    \E r \in Reqs :
        /\ req[r].op = "authorize" /\ Rejected(r, "LimitExceeded")
        /\ IdempotencyGet(req[r].tenantID, req[r].key) = NoRow

\* The retry of a rejected call was executed again and accepted.
RetryOfRejectedAccepted ==
    \E r \in Reqs :
        /\ req[r].op = "authorize" /\ pc[r] = "done" /\ committed[r]
        /\ prior[r].status = "LimitExceeded" /\ resp[r].status = "ok"

\* C32: the resource id of every committed idempotency entry is the id of a
\* committed authorization of the entry's tenant.
EntryNamesCommittedAuthorization ==
    \A t \in Tenants, k \in Keys :
        IdempotencyGet(t, k) # NoRow =>
            /\ authorizations[IdempotencyGet(t, k).resourceID] # NoRow
            /\ authorizations[IdempotencyGet(t, k).resourceID].tenantID = t

\* A call was rejected with LimitExceeded and has returned; the entry of its
\* key names an authorization that was never stored.
EntryOfRejectedCallLeft ==
    \E r \in Reqs :
        /\ Rejected(r, "LimitExceeded")
        /\ IdempotencyGet(req[r].tenantID, req[r].key) # NoRow
        /\ authorizations[IdempotencyGet(req[r].tenantID, req[r].key).resourceID] = NoRow

\* The retry of that call is answered with AuthorizationNotFound.
RetryFindsNoAuthorization ==
    \E r \in Reqs : Rejected(r, "AuthorizationNotFound")

\* C33: the store holds at most one card account of a tenant, and every
\* FindByTenantID of a tenant returns that one account.
OneCardAccountPerTenant ==
    /\ \A t \in Tenants :
          Cardinality({i \in AccountIds : /\ cardAccounts[i] # NoRow
                                          /\ cardAccounts[i].tenantID = t}) <= 1
    /\ \A r, o \in Reqs :
          (/\ req[r].op = "findByTenantID" /\ req[o].op = "findByTenantID"
           /\ req[r].tenantID = req[o].tenantID
           /\ acct[r] # NoRow /\ acct[o] # NoRow) => acct[r].id = acct[o].id

\* A second CreateCardAccount of the tenant has added a second account.
SecondAccountCreated ==
    /\ cardAccounts["acc1"] # NoRow /\ cardAccounts["acc2"] # NoRow
    /\ cardAccounts["acc1"].tenantID = cardAccounts["acc2"].tenantID
    /\ \E r \in Reqs : req[r].op = "createCardAccount" /\ resp[r].status = "ok"

\* Two FindByTenantID calls of one tenant on the same store returned
\* different accounts.
FindByTenantIDResolvedTwoWays ==
    \E r, o \in Reqs :
        /\ req[r].op = "findByTenantID" /\ req[o].op = "findByTenantID"
        /\ req[r].tenantID = req[o].tenantID
        /\ acct[r] # NoRow /\ acct[o] # NoRow /\ acct[r].id # acct[o].id
        /\ acct[r] = cardAccounts[acct[r].id] /\ acct[o] = cardAccounts[acct[o].id]

\* C34: the commit of a capture, full or partial, changes the captured
\* authorization and no other row of the two aggregates: the card account
\* keeps its rolling spend, available limit and version, and the captured
\* authorization still counts with its whole authorized amount.
CaptureChangesOnlyTheAuthorization ==
    [][\A r \in Reqs :
          (req[r].op = "capture" /\ pc[r] = "commit" /\ pc'[r] = "done") =>
              LET a == authorizations[req[r].authID] IN
              /\ cardAccounts' = cardAccounts
              /\ AvailableLimit(cardAccounts'[a.cardAccountID]) =
                     AvailableLimit(cardAccounts[a.cardAccountID])
              /\ \A o \in AuthIds \ {a.id} : authorizations'[o] = authorizations[o]
              /\ authorizations'[a.id].state = "captured"
              /\ authorizations'[a.id] \in HeldAuthorizations(a.cardAccountID)'
              /\ cardAccounts'[a.cardAccountID].rollingSpend.amt =
                     SumAmounts(HeldAuthorizations(a.cardAccountID))']_vars

\* A committed partial capture: 1.00 of 2.00 EUR is captured and the account
\* still holds the 2.00 at the version the authorize call left.
PartialCaptureStillHeld ==
    /\ authorizations[1] # NoRow
    /\ authorizations[1].state = "captured"
    /\ authorizations[1].capturedAmount.amt < authorizations[1].authorizedAmount.amt
    /\ cardAccounts["acc1"].rollingSpend = authorizations[1].authorizedAmount
    /\ cardAccounts["acc1"].version = 2
    /\ \E r \in Reqs : req[r].op = "capture" /\ committed[r] /\ Rejected(r, "ok")

\* C35: a Capture call that returns ExceedsAuthorized or CurrencyMismatch
\* leaves the authorization as it was, Authorized with nothing captured and
\* its version unchanged, and a capture of that authorization with an amount
\* in its currency within the authorized amount then succeeds.
RejectedCaptureLeavesAuthorized ==
    [][\A r \in Reqs :
          (/\ auth[r] # NoRow
           /\ req'[r].op = "capture"
           /\ resp'[r].status \in {"ExceedsAuthorized", "CurrencyMismatch"}
           /\ <<auth[r], req[r], resp[r]>> # <<auth'[r], req'[r], resp'[r]>>) =>
              /\ auth'[r] = auth[r]
              /\ auth'[r].state = "authorized"
              /\ auth'[r].capturedAmount = Zero(auth'[r].authorizedAmount.cur)
              /\ auth'[r].version = auth[r].version
              /\ \A n \in 1..auth'[r].authorizedAmount.amt :
                    LET c == Capture(auth'[r], NewMoney(n, auth'[r].authorizedAmount.cur))
                    IN c.err = "ok" /\ c.auth.state = "captured"
                       /\ c.auth.version = auth[r].version + 1]_vars

\* A capture of more than the authorized amount was just refused and the
\* authorization is still Authorized at version 1.
OverCaptureRefused ==
    \E r \in Reqs :
        /\ auth[r] # NoRow
        /\ req[r].op = "capture" /\ resp[r].status = "ExceedsAuthorized"
        /\ req[r].amount.amt > auth[r].authorizedAmount.amt
        /\ auth[r].state = "authorized" /\ auth[r].version = 1
        /\ auth[r].capturedAmount.amt = 0

\* C36: the status the handler writes for a service error is 404 for the
\* two NotFound errors, 409 for AlreadyCaptured, InvalidTransition and
\* OptimisticLock, 422 for LimitExceeded, 400 for ExceedsAuthorized and
\* CurrencyMismatch, and 500 for CorruptData and for every error that is
\* none of these.
ErrorsMappedAsSpecified ==
    \A r \in Reqs :
        req[r].op = "handleDomainError" =>
            LET is == result[r].is IN
            resp[r].status =
                CASE is \cap {"AuthorizationNotFound", "CardAccountNotFound"} # {} -> 404
                  [] is \cap {"AlreadyCaptured", "InvalidTransition", "OptimisticLock"} # {} -> 409
                  [] is = {"LimitExceeded"} -> 422
                  [] is \cap {"ExceedsAuthorized", "CurrencyMismatch"} # {} -> 400
                  [] OTHER -> 500

\* One handler answered a lost version check with 409 and the other a
\* wrapped ErrCorruptData with 500.
ConflictAndCorruptDataMapped ==
    \E r, o \in Reqs :
        /\ req[r].op = "handleDomainError" /\ req[o].op = "handleDomainError"
        /\ result[r] = ErrorOf("OptimisticLock") /\ resp[r].status = 409
        /\ result[o] = Wrap("invalid card_account_id", ErrorOf("CorruptData"))
        /\ resp[o].status = 500

\* C37: on the in-memory DataStore a call whose Atomic callback fails leaves
\* every stored card account and authorization with the rolling spend, state
\* and version it had before the call's transaction.
FailedCallbackLeavesAggregates ==
    [][\A r \in Reqs :
          (pc[r] \in {"loadAcct", "loadAuth"} /\ pc'[r] = "done" /\ ~committed'[r]) =>
              /\ cardAccounts' = cardAccounts
              /\ authorizations' = authorizations]_vars

\* An authorize call lost the race for its idempotency key and was answered
\* with the winner's response; the account's rolling spend counts its amount
\* all the same, on top of the authorizations the store holds.
SpendOfFailedCallbackKept ==
    /\ \E r \in Reqs : /\ req[r].op = "authorize" /\ pc[r] = "done"
                       /\ ~committed[r] /\ resp[r].status = "ok"
    /\ cardAccounts["acc1"].rollingSpend.amt > SumAmounts(HeldAuthorizations("acc1"))

\* A capture call lost the race for its key, and the authorization it
\* loaded is captured in the store although no capture of it committed.
CaptureOfFailedCallbackKept ==
    \E a \in AuthIds :
        /\ authorizations[a] # NoRow /\ authorizations[a].state = "captured"
        /\ CaptureCommits(a) = {}

\* C38: a call answered from the idempotency store is answered with the
\* entry of an earlier request of its own operation on its own resource: the
\* entry has the status code of the operation, a capture or reverse is
\* answered from an entry of the authorization it names, and the body shows
\* the state the operation leaves.
ReplayOfSameOperationAndResource ==
    \A r \in Reqs :
        (pc[r] = "done" /\ resp[r].status = "ok" /\ ~committed[r]) =>
            LET e == IdempotencyGet(req[r].tenantID, req[r].key) IN
            /\ e # NoRow
            /\ e.statusCode = StatusCode(req[r].op)
            /\ req[r].op # "authorize" => e.resourceID = req[r].authID
            /\ req[r].op = "capture" => resp[r].body.status = "captured"
            /\ req[r].op = "reverse" => resp[r].body.status = "reversed"

\* A capture sent with the key of the authorize call got that call's
\* response with status 200, and the authorization is not captured.
CaptureAnsweredWithAuthorizeEntry ==
    \E r \in Reqs :
        /\ pc[r] = "done" /\ req[r].op = "capture" /\ resp[r].status = "ok"
        /\ ~committed[r]
        /\ IdempotencyGet(req[r].tenantID, req[r].key).statusCode = StatusCode("authorize")
        /\ resp[r].body.authorization_id = req[r].authID
        /\ resp[r].body.status = "authorized"
        /\ authorizations[req[r].authID].state = "authorized"
        /\ authorizations[req[r].authID].capturedAmount.amt = 0

\* A reverse of authorization 2 sent with the key of a request on
\* authorization 1 got the response stored for authorization 1.
AnsweredForAnotherAuthorization ==
    \E r \in Reqs :
        /\ pc[r] = "done" /\ req[r].op \in {"capture", "reverse"}
        /\ resp[r].status = "ok" /\ ~committed[r]
        /\ authorizations[req[r].authID] # NoRow
        /\ resp[r].body.authorization_id # req[r].authID

\* A call waits for a row lock another open transaction holds.
WaitsFor(r, o) ==
    /\ r # o
    /\ \/ /\ pc[r] = "saveAcct" /\ staged[o].acct # NoRow
          /\ staged[o].acct.id = acct[r].id
       \/ /\ pc[r] = "saveAuth" /\ staged[o].auth # NoRow
          /\ staged[o].auth.id = auth[r].id
       \/ /\ pc[r] \in {"store", "storeWait"} /\ staged[o].idem # NoRow
          /\ staged[o].idem.tenantID = req[r].tenantID
          /\ staged[o].idem.idempotencyKey = req[r].key

\* C39: every call in flight comes to its end, committed or rejected;
\* no set of concurrent authorize, capture and reverse transactions waits
\* for each other's row locks for ever.
EveryTransactionEnds == \A r \in Reqs : InFlight(r) ~> ~InFlight(r)

\* The safety half of C39: no two transactions wait for each other, and
\* whenever calls are in flight one of them can take its next step.
NoDeadlock ==
    /\ \A r, o \in Reqs : ~(WaitsFor(r, o) /\ WaitsFor(o, r))
    /\ (\E r \in Reqs : InFlight(r)) => \E r \in Reqs : InFlight(r) /\ ENABLED Step(r)

\* A reverse holds the row of the card account and waits for the row of
\* the authorization, which a capture in flight has locked.
ReverseWaitsForCapture ==
    \E r, o \in Reqs :
        /\ req[r].op = "reverse" /\ req[o].op = "capture"
        /\ pc[r] = "saveAuth" /\ staged[r].acct # NoRow
        /\ WaitsFor(r, o)
        /\ ~ENABLED Step(r)

\* C40: after a Save that returned no error the row stored for the id has
\* the version of the saved aggregate and its rolling spend, or its state
\* and captured amount.
SaveSuccessMeansStored ==
    [][\A r \in Reqs :
          (pc[r] = "idle" /\ pc'[r] = "done" /\ resp'[r].status = "ok") =>
              IF acct[r] # NoRow
                THEN LET row == cardAccounts'[acct[r].id] IN
                     /\ row # NoRow
                     /\ row.version = acct[r].version
                     /\ row.rollingSpend = acct[r].rollingSpend
                ELSE LET row == authorizations'[auth[r].id] IN
                     /\ row # NoRow
                     /\ row.version = auth[r].version
                     /\ row.state = auth[r].state
                     /\ row.capturedAmount = auth[r].capturedAmount]_vars

\* Save of a version-1 account whose id is stored at a later version
\* returned no error and the stored row is as it was.
SilentSaveOfVersionOne ==
    \E r \in Reqs :
        /\ pc[r] = "done" /\ resp[r].status = "ok"
        /\ acct[r] # NoRow /\ acct[r].version = 1
        /\ cardAccounts[acct[r].id] # NoRow
        /\ cardAccounts[acct[r].id].version > 1

\* The same for an authorization: a version-1 aggregate in state Authorized
\* was saved with success over a stored row that is Captured at version 2.
SilentSaveOverCaptured ==
    \E r \in Reqs :
        /\ pc[r] = "done" /\ resp[r].status = "ok"
        /\ auth[r] # NoRow /\ auth[r].version = 1 /\ auth[r].state = "authorized"
        /\ authorizations[auth[r].id] # NoRow
        /\ authorizations[auth[r].id].state = "captured"
        /\ authorizations[auth[r].id].version = 2

====
